---- MODULE Spec2Model ----
(***************************************************************************)
(* A model of quizmuse's document-section layer: outline normalisation and *)
(* chunk tagging (toc-service), the document and session outline stores,   *)
(* the cross-document unifier, section-aware retrieval, the quiz ledger    *)
(* and the cleanup services.                                               *)
(*                                                                         *)
(* Conventions.  An optional JavaScript number is <<>> (undefined) or      *)
(* <<v>>.  A title is the sequence of its whitespace-separated words.      *)
(* Chunk indices are zero-based as in the source; TLA+ sequences are       *)
(* one-based, so chunk i is element i + 1.                                 *)
(***************************************************************************)
EXTENDS Integers, Sequences, FiniteSets, TLC

----------------------------------------------------------------------------
(* Bounds of the model. *)

\* largest number of chunks of one document
MaxChunks == 3
\* largest number of sections the boundary extractor proposes
MaxProposals == 2
\* number of chunks of the ten-chunk document
ScenarioChunks == 10

----------------------------------------------------------------------------
(* Generic helpers. *)

None == <<>>
Some(v) == <<v>>

Min(a, b) == IF a < b THEN a ELSE b
Max(a, b) == IF a > b THEN a ELSE b
CeilDiv(a, b) == (a + b - 1) \div b
Range(s) == {s[i] : i \in DOMAIN s}

\* all sequences over S of length 0..n
SeqsUpTo(S, n) == UNION {[1..k -> S] : k \in 0..n}

----------------------------------------------------------------------------
(* toc-service: TOC_CONFIG and section normalisation. *)

\* TOC_CONFIG.maxDepth is declared as 3; the clamp in generateIndividualTOC
\* writes the literal 3.
MaxDepth == 3

\* Number.MAX_SAFE_INTEGER (2^53 - 1) in the source.  TLC's integers are 32
\* bits wide, so it is represented by the largest of them; every chunk index
\* of the model is far below either value.
MAX_SAFE_INTEGER == 2147483647

\* `section_${n}`
SectionName(n) == "section_" \o ToString(n)

\* `Section ${n}`
DefaultTitle(n) == <<"Section", ToString(n)>>

\* a normaliser that cuts the proposed boundaries down to the last chunk
\* index instead of replacing them
ClampedBoundaries(section, index, N, K) ==
    IF section.startIndex = None \/ section.endIndex = None
    THEN <<index * CeilDiv(N, K), Min((index + 1) * CeilDiv(N, K) - 1, N - 1)>>
    ELSE <<Min(section.startIndex[1], N - 1), Min(section.endIndex[1], N - 1)>>

\* The boundaries generateIndividualTOC gives the section at (zero-based)
\* position index of a response of K sections for a document of N chunks.
SectionBoundaries(section, index, N, K) ==
    LET startIndex == section.startIndex[1]
        endIndex == section.endIndex[1]
        maxDocIndex == N - 1
        \* boundaries not provided by the extractor
        ceilPerSection == CeilDiv(N, K)
        missing == <<index * ceilPerSection,
                     Min((index + 1) * ceilPerSection - 1, N - 1)>>
        \* boundaries provided but invalid
        documentsPerSection == N \div K
        remainingDocuments == N % K
        calcStart == index * documentsPerSection + Min(index, remainingDocuments)
        calcEnd == calcStart + documentsPerSection - 1
        bumpedEnd == IF index >= K - remainingDocuments THEN calcEnd + 1 ELSE calcEnd
        calculated == <<calcStart, Min(bumpedEnd, N - 1)>>
    IN IF section.startIndex = None \/ section.endIndex = None
       THEN missing
       ELSE IF startIndex > maxDocIndex \/ endIndex > maxDocIndex \/ startIndex > endIndex
            THEN calculated
            ELSE <<startIndex, endIndex>>

\* the level as the extractor proposed it
ProposedLevel(level) == level

\* Math.min(Math.max(section.level || 1, 1), 3)
ClampLevel(level) == Min(Max(IF level = 0 THEN 1 ELSE level, 1), MaxDepth)

\* One element of response.sections.map(...) in generateIndividualTOC.
ConvertSection(section, index, N, K, filename) ==
    LET b == SectionBoundaries(section, index, N, K)
    IN [id |-> IF section.id # "" THEN section.id ELSE SectionName(index + 1),
        title |-> IF section.title # <<>> THEN section.title ELSE DefaultTitle(index + 1),
        level |-> ClampLevel(section.level),
        pageNumber |-> section.pageNumber,
        startIndex |-> b[1],
        endIndex |-> b[2],
        filename |-> filename,
        originalId |-> SectionName(index),
        groupId |-> None]

\* doc.metadata?.loc?.pageNumber || 1 (an absent page number is modelled as 0)
PageOf(doc) == IF doc.pageNumber = 0 THEN 1 ELSE doc.pageNumber

\* The keys of pageGroups in insertion order: the distinct page numbers in
\* order of first appearance.
RECURSIVE PageOrder(_, _)
PageOrder(documents, seen) ==
    IF documents = <<>> THEN <<>>
    ELSE LET p == PageOf(Head(documents))
         IN IF p \in seen THEN PageOrder(Tail(documents), seen)
            ELSE <<p>> \o PageOrder(Tail(documents), seen \cup {p})

PageDocs(documents, p) == SelectSeq(documents, LAMBDA d : PageOf(d) = p)

\* extractTitleFromContent on a chunk whose text is a single line without a
\* full stop: the line is a title when it is longer than 10 and shorter than
\* 100 characters, otherwise null (<<>>).
ExtractTitleFromContent(content) ==
    IF Len(content) > 10 /\ Len(content) < 100 THEN <<content>> ELSE <<>>

\* uuidv4(): the n-th identifier drawn from the generator
Uuid(n) == "uuid_" \o ToString(n)

\* generateBasicTOC: one section per page group, ranges laid end to end.
\* uuid0 is the number of identifiers drawn before the call.
RECURSIVE BasicSections(_, _, _, _, _, _)
BasicSections(documents, pages, sectionIndex, currentDocIndex, filename, uuid0) ==
    IF pages = <<>> THEN <<>>
    ELSE LET pageDocs == PageDocs(documents, Head(pages))
             extracted == ExtractTitleFromContent(pageDocs[1].pageContent)
             section == [id |-> Uuid(uuid0 + sectionIndex + 1),
                         title |-> IF extracted # <<>> THEN extracted
                                   ELSE DefaultTitle(sectionIndex + 1),
                         level |-> 1,
                         pageNumber |-> Some(Head(pages)),
                         startIndex |-> currentDocIndex,
                         endIndex |-> currentDocIndex + Len(pageDocs) - 1,
                         filename |-> filename,
                         originalId |-> SectionName(sectionIndex),
                         groupId |-> None]
         IN <<section>> \o BasicSections(documents, Tail(pages), sectionIndex + 1,
                                         currentDocIndex + Len(pageDocs), filename, uuid0)

\* a fallback that ignores the page numbers: one section for the whole
\* document
WholeDocumentTOC(documents, filename, uuid0) ==
    <<[id |-> Uuid(uuid0 + 1), title |-> DefaultTitle(1), level |-> 1,
       pageNumber |-> Some(1), startIndex |-> 0, endIndex |-> Len(documents) - 1,
       filename |-> filename, originalId |-> SectionName(0), groupId |-> None]>>

GenerateBasicTOC(documents, filename, uuid0) ==
    BasicSections(documents, PageOrder(documents, {}), 0, 0, filename, uuid0)

\* generateIndividualTOC for a non-empty chunk list.  aiThrows: the model call
\* or its schema validation throws; response: the sections it returns
\* otherwise.  A throw and an empty response both fall back to
\* generateBasicTOC.
GenerateIndividualTOC(documents, filename, aiThrows, response, uuid0) ==
    IF aiThrows \/ response = <<>>
    THEN GenerateBasicTOC(documents, filename, uuid0)
    ELSE [i \in 1..Len(response) |->
            ConvertSection(response[i], i - 1, Len(documents), Len(response), filename)]

\* The number of uuidv4() calls of GenerateIndividualTOC.
UuidsDrawn(documents, aiThrows, response) ==
    IF aiThrows \/ response = <<>> THEN Len(PageOrder(documents, {})) ELSE 0

----------------------------------------------------------------------------
(* toc-service: chunk tagging. *)

\* [...tocSections].sort((a, b) => (a.startIndex || 0) - (b.startIndex || 0)):
\* Array.prototype.sort is stable.
RECURSIVE InsertByStart(_, _)
InsertByStart(sorted, s) ==
    IF sorted = <<>> THEN <<s>>
    ELSE IF Head(sorted).startIndex <= s.startIndex
         THEN <<Head(sorted)>> \o InsertByStart(Tail(sorted), s)
         ELSE <<s>> \o sorted

RECURSIVE SortByStart(_)
SortByStart(sections) ==
    IF sections = <<>> THEN <<>>
    ELSE InsertByStart(SortByStart(SubSeq(sections, 1, Len(sections) - 1)),
                       sections[Len(sections)])

\* The loop of findSectionForDocument from position i down to 1, then the
\* fallback to the first section.
RECURSIVE FindFrom(_, _, _)
FindFrom(docIndex, sortedSections, i) ==
    IF i = 0 THEN sortedSections[1]
    ELSE LET section == sortedSections[i]
             startIndex == section.startIndex
             endIndex == IF section.endIndex = 0 THEN MAX_SAFE_INTEGER
                         ELSE section.endIndex
         IN IF docIndex >= startIndex /\ docIndex <= endIndex
            THEN section
            ELSE FindFrom(docIndex, sortedSections, i - 1)

\* findSectionForDocument on a non-empty section list
FindSectionForDocument(docIndex, sortedSections) ==
    FindFrom(docIndex, sortedSections, Len(sortedSections))

\* The sectionId metadata tagDocumentsWithSectionMetadata gives each chunk;
\* "null" stands for a chunk left without a section id (no sections given).
TagDocumentsWithSectionMetadata(documents, tocSections) ==
    IF tocSections = <<>>
    THEN [i \in 1..Len(documents) |-> "null"]
    ELSE LET sortedSections == SortByStart(tocSections)
         IN [i \in 1..Len(documents) |->
                FindSectionForDocument(i - 1, sortedSections).id]

----------------------------------------------------------------------------
(* toc-service: title similarity and the cross-document unifier. *)

\* TOC_CONFIG.similarityThreshold is 0.8, kept as the fraction 8 / 10
SimilarityThresholdNum == 8
SimilarityThresholdDen == 10

\* text.toLowerCase().replace(/[^\w\s]/g, '') on one word of the vocabulary
\* of the model: letters are lower-cased, punctuation is removed.
NormalizeWord(w) ==
    CASE w = "Introduction" -> "introduction"
      [] w = "Intro" -> "intro"
      [] w = "Topic" -> "topic"
      [] w = "Topic:" -> "topic"
      [] w = "Methods" -> "methods"
      [] w = "Section" -> "section"
      [] w = "-" -> ""
      [] OTHER -> w

\* normalize(text): the normalised words in order (a word that was only
\* punctuation leaves an empty entry, i.e. a doubled blank in the string)
NormalizeTitle(title) == [i \in DOMAIN title |-> NormalizeWord(title[i])]

\* new Set(norm.split(/\s+/)) of the trimmed normalised string: its non-empty
\* words, or the single empty string when nothing is left
WordSet(title) ==
    LET words == Range(NormalizeTitle(title)) \ {""}
    IN IF words = {} THEN {""} ELSE words

\* calculateSimilarity(text1, text2) >= TOC_CONFIG.similarityThreshold
SimilarTitles(text1, text2) ==
    IF NormalizeTitle(text1) = NormalizeTitle(text2)
    THEN TRUE
    ELSE LET words1 == WordSet(text1)
             words2 == WordSet(text2)
             intersection == words1 \cap words2
             union == words1 \cup words2
         IN Cardinality(intersection) * SimilarityThresholdDen
                >= SimilarityThresholdNum * Cardinality(union)

\* The inner loop of detectSectionOverlaps for the seed at position seed:
\* <<positions of the group, processed ids>>.
RECURSIVE FindSimilar(_, _, _, _, _)
FindSimilar(sections, seed, j, group, processed) ==
    IF j > Len(sections) THEN <<group, processed>>
    ELSE IF sections[j].id \in processed
         THEN FindSimilar(sections, seed, j + 1, group, processed)
         ELSE IF SimilarTitles(sections[seed].title, sections[j].title)
              THEN FindSimilar(sections, seed, j + 1, Append(group, j),
                               processed \cup {sections[j].id})
              ELSE FindSimilar(sections, seed, j + 1, group, processed)

\* The outer loop of detectSectionOverlaps from position i on.
RECURSIVE DetectFrom(_, _, _, _)
DetectFrom(sections, i, processed, groups) ==
    IF i > Len(sections) THEN groups
    ELSE IF sections[i].id \in processed
         THEN DetectFrom(sections, i + 1, processed, groups)
         ELSE LET found == FindSimilar(sections, i, 1, <<i>>,
                                       processed \cup {sections[i].id})
              IN DetectFrom(sections, i + 1, found[2],
                            IF Len(found[1]) > 1 THEN Append(groups, found[1])
                            ELSE groups)

\* detectSectionOverlaps: the groups in creation order, each the positions of
\* its members in sections, the seed first.  Group k gets the k-th uuid drawn.
DetectSectionOverlaps(sections) == DetectFrom(sections, 1, {}, <<>>)

\* The comparator of the sort in createUnifiedSections.
CompareUnified(a, b) ==
    LET pageA == IF a.pageNumber = None THEN 0 ELSE a.pageNumber[1]
        pageB == IF b.pageNumber = None THEN 0 ELSE b.pageNumber[1]
    IN IF a.pageNumber # b.pageNumber THEN pageA - pageB ELSE a.level - b.level

RECURSIVE InsertUnified(_, _)
InsertUnified(sorted, s) ==
    IF sorted = <<>> THEN <<s>>
    ELSE IF CompareUnified(Head(sorted), s) <= 0
         THEN <<Head(sorted)>> \o InsertUnified(Tail(sorted), s)
         ELSE <<s>> \o sorted

\* the list left in the order createUnifiedSections built it
KeepOrder(unified) == unified

\* Array.prototype.sort with CompareUnified (stable)
RECURSIVE SortUnified(_)
SortUnified(unified) ==
    IF unified = <<>> THEN <<>>
    ELSE InsertUnified(SortUnified(SubSeq(unified, 1, Len(unified) - 1)),
                       unified[Len(unified)])

AsUnified(section, related, grouped) ==
    [id |-> section.id, title |-> section.title, level |-> section.level,
     pageNumber |-> section.pageNumber, startIndex |-> section.startIndex,
     endIndex |-> section.endIndex, filename |-> section.filename,
     originalId |-> section.originalId, groupId |-> section.groupId,
     relatedSections |-> related, isGrouped |-> grouped]

\* createUnifiedSections(sections, groups); uuid0 is the number of uuids
\* drawn before detectSectionOverlaps ran.
CreateUnifiedSections(sections, groups, uuid0) ==
    LET member(k, m) == [sections[groups[k][m]] EXCEPT !.groupId = Some(Uuid(uuid0 + k))]
        groupedSections ==
            [k \in 1..Len(groups) |->
                AsUnified(member(k, 1),
                          [m \in 1..(Len(groups[k]) - 1) |-> member(k, m + 1)],
                          TRUE)]
        processed == UNION {{sections[groups[k][m]].id : m \in DOMAIN groups[k]} :
                              k \in DOMAIN groups}
        ungrouped == SelectSeq(sections, LAMBDA x : x.id \notin processed)
    IN SortUnified(groupedSections
                   \o [i \in 1..Len(ungrouped) |-> AsUnified(ungrouped[i], <<>>, FALSE)])

\* The flattening loop of updateSessionTOC over the rows in the order the
\* store returned them: every section takes the filename of its row.
RECURSIVE FlattenSections(_)
FlattenSections(documentTOCs) ==
    IF documentTOCs = <<>> THEN <<>>
    ELSE LET docTOC == Head(documentTOCs)
         IN [i \in DOMAIN docTOC.toc_data |->
                [docTOC.toc_data[i] EXCEPT !.filename = docTOC.filename]]
            \o FlattenSections(Tail(documentTOCs))

\* The unified outline updateSessionTOC computes from the fetched rows
\* (TOC_CONFIG.enableSmartGrouping is true).
UnifiedTocData(documentTOCs, uuid0) ==
    IF documentTOCs = <<>> THEN <<>>
    ELSE LET allSections == FlattenSections(documentTOCs)
         IN CreateUnifiedSections(allSections, DetectSectionOverlaps(allSections), uuid0)

\* The number of uuidv4() calls of that run: one per group.
GroupsDrawn(documentTOCs) ==
    IF documentTOCs = <<>> THEN 0
    ELSE Len(DetectSectionOverlaps(FlattenSections(documentTOCs)))

----------------------------------------------------------------------------
(* toc-service: the outline stores (tables document_toc and session_toc). *)

\* documents.map(doc => doc.pageContent).join('\n')
RECURSIVE JoinContent(_)
JoinContent(documents) ==
    IF documents = <<>> THEN ""
    ELSE IF Len(documents) = 1 THEN documents[1].pageContent
         ELSE documents[1].pageContent \o "\n" \o JoinContent(Tail(documents))

\* generateFileHash(content, filename): SHA-256 of content + filename.  The
\* digest is taken to be collision free, so it is represented by its input.
GenerateFileHash(content, filename) == content \o filename

\* a plain insert: an existing record with the same key is kept
InsertDocumentToc(rows, tocRecord) == rows \cup {tocRecord}

\* upsert(tocRecord, { onConflict: 'session_id,file_hash' }) on document_toc
UpsertDocumentToc(rows, tocRecord) ==
    {r \in rows : ~(r.session_id = tocRecord.session_id
                    /\ r.file_hash = tocRecord.file_hash)} \cup {tocRecord}

\* the record storeDocumentTOC upserts
TocRecord(sessionId, filename, documents, toc) ==
    [session_id |-> sessionId,
     filename |-> filename,
     file_hash |-> GenerateFileHash(JoinContent(documents), filename),
     toc_data |-> toc]

\* delete().eq('session_id', sessionId).eq('filename', filename)
DeleteDocumentTocRows(rows, sessionId, filename) ==
    {r \in rows : ~(r.session_id = sessionId /\ r.filename = filename)}

\* select('*').eq('session_id', sessionId): the query has no ORDER BY, so the
\* rows come back in any order
FetchOrders(rows, sessionId) ==
    LET matching == {r \in rows : r.session_id = sessionId}
        n == Cardinality(matching)
    IN {o \in [1..n -> matching] : \A i, j \in 1..n : i # j => o[i] # o[j]}

----------------------------------------------------------------------------
(* State. *)

VARIABLES
    docs,        \* normalisation harness: the chunks of the document
    aiThrows,    \* normalisation harness: the boundary extractor throws
    aiResponse,  \* normalisation harness: the sections it proposes
    tocData,     \* normalisation harness: result of generateIndividualTOC
    taggedIds,   \* normalisation harness: sectionId given to each chunk
    tocPc,       \* normalisation harness: "off", "input" or "done"
    documents,   \* table documents (the chunk store): a bag of chunk rows
    documentToc, \* table document_toc: unique on (session_id, file_hash)
    sessionToc,  \* table session_toc: per session, None or Some(unified outline)
    uuidCounter, \* number of uuidv4() identifiers drawn so far
    now,         \* Date.now(), in hours
    procs,       \* the requests in flight: position and local variables
    quizQuestions,  \* table quiz_questions: unique on (session, section, question)
    quizSessions,   \* table quiz_sessions: the records in insertion order
    quiz,           \* the quiz-graph run in flight: position and graph state
    quizLog,        \* the finished quiz-graph runs and what each returned
    quizState,      \* QuizComponent: its quizState, with quizStarted
    onCompleteCalls, \* QuizComponent: the calls of onComplete, as <<score, total>>
    activeSessions, \* CleanupService.activeSessions: session -> last seen
    cleanup,        \* the cleanup requests served: how many, and the last one
    heartbeats      \* activeSessions of the heartbeat route: session -> lastHeartbeat

tocVars == <<docs, aiThrows, aiResponse, tocData, taggedIds, tocPc>>
storeVars == <<documents, documentToc, sessionToc>>

quizVars == <<quizQuestions, quizSessions, quiz, quizLog, quizState, onCompleteCalls>>
sweepVars == <<activeSessions, cleanup, heartbeats>>

vars == <<tocVars, storeVars, uuidCounter, now, procs, quizVars, sweepVars>>

\* the session ids the clients send
ClientSessions == {"s1", "s2"}
Filenames == {"a.pdf", "b.pdf"}

\* the requests that can be in flight together
MaxProcs == 2
Procs == 1..MaxProcs

\* thread.thread_id of the thread the ingest route creates for request p
ThreadIdOf(p) == "thread_" \o ToString(p)

\* every session id the stores can hold: the ingest route files an upload
\* that came without a session id under the id of its thread
Sessions == ClientSessions \cup {ThreadIdOf(p) : p \in Procs}

\* the normalisation harness is not in use
TocOff ==
    /\ docs = <<>>
    /\ aiThrows = FALSE
    /\ aiResponse = <<>>
    /\ tocData = <<>>
    /\ taggedIds = <<>>
    /\ tocPc = "off"

\* every table is empty
StoresEmpty ==
    /\ documents = {}
    /\ documentToc = {}
    /\ sessionToc = [s \in Sessions |-> None]

IdleProc ==
    [kind |-> "none", pc |-> "idle", sessionId |-> "", filename |-> "",
     docs |-> <<>>, uploaded |-> 0, tocData |-> <<>>, taggedIds |-> <<>>,
     fetched |-> <<>>, unified |-> <<>>]

ProcsIdle == procs = [p \in Procs |-> IdleProc]

\* contentAnalysis before analyzeQuizContent has run
NoAnalysis ==
    [contentLength |-> 0, estimatedQuestions |-> 0,
     needsExternalQuestions |-> FALSE, externalQuestionCount |-> 0]

IdleQuiz ==
    [pc |-> "idle", sessionId |-> "", sectionIds |-> <<>>, numQuestions |-> 0,
     filterKwargs |-> None, usedQuestionIds |-> {}, contentAnalysis |-> NoAnalysis,
     documents |-> {}, retrievedBy |-> ""]

\* no quiz was requested
\* useState<QuizState>(...) and useState(false) for quizStarted
InitialQuizState ==
    [questions |-> <<>>, currentQuestion |-> 0, score |-> 0, userAnswers |-> <<>>,
     completed |-> FALSE, showFeedback |-> FALSE, selectedAnswer |-> None,
     quizStarted |-> FALSE]

QuizOff ==
    /\ quizQuestions = {}
    /\ quizSessions = <<>>
    /\ quiz = IdleQuiz
    /\ quizLog = <<>>
    /\ quizState = InitialQuizState
    /\ onCompleteCalls = <<>>

\* no session is registered and no cleanup has run
CleanupOff ==
    /\ activeSessions = [s \in Sessions |-> None]
    /\ cleanup = [runs |-> 0, last |-> None]
    /\ heartbeats = [s \in Sessions |-> None]

----------------------------------------------------------------------------
(* SpecTOC: generateIndividualTOC followed by tagDocumentsWithSectionMetadata *)
(* (the first two steps of generateTOC in the ingestion graph) on every      *)
(* bounded input.                                                            *)

\* optional boundary values proposed for a document of N chunks
BoundaryInputs(N) == {None} \cup {Some(v) : v \in (0 - 1)..N}

\* Proposals that vary the boundaries, and proposals that vary the level
\* (TOCSchema admits levels 1..5 and any number as a boundary).
RawInputs(N) ==
    [id : {""}, title : {<<>>}, level : {1}, pageNumber : {None},
     startIndex : BoundaryInputs(N), endIndex : BoundaryInputs(N)]
    \cup
    [id : {""}, title : {<<>>}, level : 2..5, pageNumber : {None},
     startIndex : {None}, endIndex : {None}]

ChunkInputs == [pageNumber : 0..2, pageContent : {"x"}]

InitTOC ==
    /\ \E N \in 1..MaxChunks :
         /\ docs \in [1..N -> ChunkInputs]
         /\ aiResponse \in SeqsUpTo(RawInputs(N), MaxProposals)
    /\ aiThrows \in BOOLEAN
    /\ aiThrows => aiResponse = <<>>
    /\ aiResponse # <<>> => \A i \in DOMAIN docs : docs[i].pageNumber = 0
    /\ tocData = <<>>
    /\ taggedIds = <<>>
    /\ tocPc = "input"
    /\ StoresEmpty
    /\ uuidCounter = 0
    /\ now = 0
    /\ ProcsIdle
    /\ QuizOff
    /\ CleanupOff

GenerateAndTag ==
    /\ tocPc = "input"
    /\ tocData' = GenerateIndividualTOC(docs, "a.pdf", aiThrows, aiResponse, uuidCounter)
    /\ taggedIds' = TagDocumentsWithSectionMetadata(docs, tocData')
    /\ uuidCounter' = uuidCounter + UuidsDrawn(docs, aiThrows, aiResponse)
    /\ tocPc' = "done"
    /\ UNCHANGED <<docs, aiThrows, aiResponse, storeVars, now, procs, quizVars, sweepVars>>

NextTOC == GenerateAndTag

SpecTOC == InitTOC /\ [][NextTOC]_vars

\* chunk index i lies in the range of section s
Covers(s, i) == s.startIndex <= i /\ i <= s.endIndex

\* C1: the sections returned by generateIndividualTOC cover [0, N-1] with no
\* gaps: every chunk index lies in the range of at least one section.
C1_PartitionTotality ==
    tocPc = "done" =>
        \A i \in 0..(Len(docs) - 1) : \E k \in DOMAIN tocData : Covers(tocData[k], i)

\* C2: every returned section satisfies 0 <= startIndex <= endIndex <= N-1.
C2_BoundariesInRange ==
    tocPc = "done" =>
        \A k \in DOMAIN tocData :
            /\ 0 <= tocData[k].startIndex
            /\ tocData[k].startIndex <= tocData[k].endIndex
            /\ tocData[k].endIndex <= Len(docs) - 1

\* C3: after tagging every chunk carries a non-null sectionId that is the id
\* of one of the document's sections, and a chunk whose index no section
\* covers is assigned to the first section in start order.
C3_TaggingTotality ==
    tocPc = "done" =>
        \A i \in 0..(Len(docs) - 1) :
            /\ taggedIds[i + 1] # "null"
            /\ \E k \in DOMAIN tocData : tocData[k].id = taggedIds[i + 1]
            /\ (\A k \in DOMAIN tocData : ~Covers(tocData[k], i))
                   => taggedIds[i + 1] = SortByStart(tocData)[1].id

\* The harness on the inputs that take the fallback: the extractor throws or
\* answers without a section, the chunks carry any page numbers.
InitFallback ==
    /\ \E N \in 1..MaxChunks : docs \in [1..N -> ChunkInputs]
    /\ aiThrows \in BOOLEAN
    /\ aiResponse = <<>>
    /\ tocData = <<>>
    /\ taggedIds = <<>>
    /\ tocPc = "input"
    /\ StoresEmpty
    /\ uuidCounter = 0
    /\ now = 0
    /\ ProcsIdle
    /\ QuizOff
    /\ CleanupOff

SpecFallback == InitFallback /\ [][NextTOC]_vars

\* the boundary extractor threw or proposed no section
FallbackTaken == aiThrows \/ aiResponse = <<>>

----------------------------------------------------------------------------
(* The ingestion graph (generateTOC) and the outline deletions, one store   *)
(* call per step.                                                            *)

T_Intro == <<"Introduction">>
T_IntroTopic == <<"Intro", "to", "the", "Topic">>
T_Methods == <<"Methods">>

RawTitled(title) ==
    [id |-> "", title |-> title, level |-> 1, pageNumber |-> None,
     startIndex |-> None, endIndex |-> None]

\* what the boundary extractor answers during an ingestion
IngestResponses ==
    {<<>>,
     <<RawTitled(T_Intro)>>,
     <<RawTitled(T_IntroTopic)>>,
     <<RawTitled(T_Methods)>>,
     <<RawTitled(T_Intro), RawTitled(T_Methods)>>}

Chunk(page, content) == [pageNumber |-> page, pageContent |-> content]

\* the chunk lists that are uploaded
IngestDocs == {<<Chunk(1, "x")>>, <<Chunk(1, "x"), Chunk(2, "y")>>}

\* number of copies of row in a bag of rows
Copies(table, row) == Cardinality({e \in table : e.row = row})

\* insert rows (a sequence) into a bag of rows
RECURSIVE InsertRows(_, _)
InsertRows(table, rows) ==
    IF rows = <<>> THEN table
    ELSE InsertRows(table \cup {[row |-> Head(rows),
                                 copy |-> Copies(table, Head(rows)) + 1]},
                    Tail(rows))

\* the rows retriever.addDocuments(taggedDocs) inserts for request p
ChunkRows(p) ==
    [i \in DOMAIN procs[p].docs |->
        [sessionId |-> procs[p].sessionId,
         filename |-> procs[p].filename,
         sectionId |-> procs[p].taggedIds[i],
         documentIndex |-> i - 1,
         lastAccessed |-> procs[p].uploaded,
         pageContent |-> procs[p].docs[i].pageContent]]

\* generateTOC up to the tagging: generateIndividualTOC and
\* tagDocumentsWithSectionMetadata for an upload of file f to session s
StartIngest(p, s, f, d, throws, response) ==
    /\ procs[p].pc = "idle"
    /\ LET toc == GenerateIndividualTOC(d, f, throws, response, uuidCounter)
       IN procs' = [procs EXCEPT ![p] =
                      [IdleProc EXCEPT !.kind = "ingest", !.pc = "tagged",
                                       !.sessionId = s, !.filename = f, !.docs = d,
                                       !.uploaded = now, !.tocData = toc,
                                       !.taggedIds = TagDocumentsWithSectionMetadata(d, toc)]]
    /\ uuidCounter' = uuidCounter + UuidsDrawn(d, throws, response)
    /\ UNCHANGED <<tocVars, quizVars, sweepVars, storeVars, now>>

\* retriever.addDocuments(taggedDocs)
AddDocuments(p) ==
    /\ procs[p].pc = "tagged"
    /\ documents' = InsertRows(documents, ChunkRows(p))
    /\ procs' = [procs EXCEPT ![p].pc = "added"]
    /\ UNCHANGED <<tocVars, quizVars, sweepVars, documentToc, sessionToc, uuidCounter, now>>

\* storeDocumentTOC(sessionId, filename, taggedDocs, tocData)
StoreDocumentTOC(p) ==
    /\ procs[p].pc = "added"
    /\ documentToc' = UpsertDocumentToc(documentToc,
                          TocRecord(procs[p].sessionId, procs[p].filename,
                                    procs[p].docs, procs[p].tocData))
    /\ procs' = [procs EXCEPT ![p].pc = "tocStored"]
    /\ UNCHANGED <<tocVars, quizVars, sweepVars, documents, sessionToc, uuidCounter, now>>

\* updateSessionTOC started without waiting for storeDocumentTOC: the fetch
\* runs right after the chunk insert
FetchBeforeStore(p) ==
    /\ procs[p].pc = "added"
    /\ \E order \in FetchOrders(documentToc, procs[p].sessionId) :
         /\ procs' = [procs EXCEPT ![p].pc = "fetched",
                                   ![p].fetched = order,
                                   ![p].unified = UnifiedTocData(order, uuidCounter)]
         /\ uuidCounter' = uuidCounter + GroupsDrawn(order)
    /\ UNCHANGED <<tocVars, quizVars, sweepVars, storeVars, now>>

\* updateSessionTOC, first half: fetch the session's document outlines and
\* compute the unified outline
FetchDocumentTOCs(p) ==
    /\ procs[p].pc = "tocStored"
    /\ \E order \in FetchOrders(documentToc, procs[p].sessionId) :
         /\ procs' = [procs EXCEPT ![p].pc = "fetched",
                                   ![p].fetched = order,
                                   ![p].unified = UnifiedTocData(order, uuidCounter)]
         /\ uuidCounter' = uuidCounter + GroupsDrawn(order)
    /\ UNCHANGED <<tocVars, quizVars, sweepVars, storeVars, now>>

\* updateSessionTOC, second half: upsert the unified outline on session_id
StoreSessionTOC(p) ==
    /\ procs[p].pc = "fetched"
    /\ sessionToc' = [sessionToc EXCEPT ![procs[p].sessionId] = Some(procs[p].unified)]
    /\ procs' = [procs EXCEPT ![p].pc = "done"]
    /\ UNCHANGED <<tocVars, quizVars, sweepVars, documents, documentToc, uuidCounter, now>>

\* a store call of request p returns an error: the function throws
StorageFailure(p) ==
    /\ procs[p].pc \in {"tagged", "added", "tocStored", "fetched"}
    /\ procs' = [procs EXCEPT ![p].pc = "failed"]
    /\ UNCHANGED <<tocVars, quizVars, sweepVars, storeVars, uuidCounter, now>>

\* deleteDocumentTOC of the backend toc-service: delete the rows, then run
\* updateSessionTOC (FetchDocumentTOCs, StoreSessionTOC)
BackendDeleteDocumentTOC(p, s, f) ==
    /\ procs[p].pc = "idle"
    /\ documentToc' = DeleteDocumentTocRows(documentToc, s, f)
    /\ procs' = [procs EXCEPT ![p] =
                    [IdleProc EXCEPT !.kind = "backendDelete", !.pc = "tocStored",
                                     !.sessionId = s, !.filename = f]]
    /\ UNCHANGED <<tocVars, quizVars, sweepVars, documents, sessionToc, uuidCounter, now>>

\* DELETE /api/toc: deleteDocumentTOC of the frontend toc-service
FrontendDeleteDocumentTOC(p, s, f) ==
    /\ procs[p].pc = "idle"
    /\ documentToc' = DeleteDocumentTocRows(documentToc, s, f)
    /\ procs' = [procs EXCEPT ![p] =
                    [IdleProc EXCEPT !.kind = "frontendDelete", !.pc = "done",
                                     !.sessionId = s, !.filename = f]]
    /\ UNCHANGED <<tocVars, quizVars, sweepVars, documents, sessionToc, uuidCounter, now>>

\* the first store call of a deletion fails
DeleteFails(p, s, f) ==
    /\ procs[p].pc = "idle"
    /\ \E k \in {"backendDelete", "frontendDelete"} :
         procs' = [procs EXCEPT ![p] =
                     [IdleProc EXCEPT !.kind = k, !.pc = "failed",
                                      !.sessionId = s, !.filename = f]]
    /\ UNCHANGED <<tocVars, quizVars, sweepVars, storeVars, uuidCounter, now>>

InitIngest ==
    /\ TocOff
    /\ StoresEmpty
    /\ uuidCounter = 0
    /\ now = 0
    /\ ProcsIdle
    /\ QuizOff
    /\ CleanupOff

NextIngest ==
    \E p \in Procs :
        \/ \E s \in ClientSessions, f \in Filenames, d \in IngestDocs,
              throws \in BOOLEAN, response \in IngestResponses :
                /\ throws => response = <<>>
                /\ StartIngest(p, s, f, d, throws, response)
        \/ AddDocuments(p)
        \/ StoreDocumentTOC(p)
        \/ FetchDocumentTOCs(p)
        \/ StoreSessionTOC(p)
        \/ StorageFailure(p)
        \/ \E s \in ClientSessions, f \in Filenames : BackendDeleteDocumentTOC(p, s, f)
        \/ \E s \in ClientSessions, f \in Filenames : FrontendDeleteDocumentTOC(p, s, f)
        \/ \E s \in ClientSessions, f \in Filenames : DeleteFails(p, s, f)

SpecIngest == InitIngest /\ [][NextIngest]_vars

----------------------------------------------------------------------------
(* Claims about the outline stores and the unifier. *)

\* a unified outline with its group ids blanked
WithoutGroupIds(unified) ==
    [i \in DOMAIN unified |->
        [unified[i] EXCEPT
            !.groupId = None,
            !.relatedSections =
                [m \in DOMAIN unified[i].relatedSections |->
                    [unified[i].relatedSections[m] EXCEPT !.groupId = None]]]]

\* the filenames a unified outline refers to, in representatives and in
\* related sections
FilenamesIn(unified) ==
    {unified[i].filename : i \in DOMAIN unified}
    \cup UNION {{unified[i].relatedSections[m].filename :
                    m \in DOMAIN unified[i].relatedSections} : i \in DOMAIN unified}

\* request p has upserted its document outline
HasStoredToc(p) ==
    /\ procs[p].kind = "ingest"
    /\ procs[p].pc \in {"tocStored", "fetched", "done"}

\* C6: when every request is an ingestion into session s of a file of its
\* own and all of them have finished, the stored session outline is the
\* unified outline of the stored document outlines of s.
C6_ConcurrentIngestionConverges ==
    \A s \in Sessions :
        (/\ \A p \in Procs : /\ procs[p].kind = "ingest"
                             /\ procs[p].pc = "done"
                             /\ procs[p].sessionId = s
         /\ \A p, q \in Procs : p # q => procs[p].filename # procs[q].filename)
        => /\ sessionToc[s] # None
           /\ \E order \in FetchOrders(documentToc, s) :
                 WithoutGroupIds(sessionToc[s][1])
                     = WithoutGroupIds(UnifiedTocData(order, 0))

\* C7: when a delete-by-(session, filename) returns successfully and no
\* outline of that file is stored, the stored session outline has no section,
\* representative or related, of that file.
C7_DeleteRecomputesSessionOutline ==
    [][\A p \in Procs :
          (/\ procs[p].pc # "done"
           /\ procs'[p].pc = "done"
           /\ procs'[p].kind \in {"backendDelete", "frontendDelete"}
           /\ \A r \in documentToc' :
                 ~(r.session_id = procs'[p].sessionId /\ r.filename = procs'[p].filename))
          => \/ sessionToc'[procs'[p].sessionId] = None
             \/ procs'[p].filename
                    \notin FilenamesIn(sessionToc'[procs'[p].sessionId][1])]_vars

\* C8: two runs of updateSessionTOC that fetched the same set of document
\* outlines compute the same sections and the same grouping (group ids
\* aside), whatever the order the store returned the rows in.
C8_UnifierIdempotent ==
    \A p, q \in Procs :
        (/\ procs[p].pc \in {"fetched", "done"}
         /\ procs[q].pc \in {"fetched", "done"}
         /\ procs[p].kind # "frontendDelete"
         /\ procs[q].kind # "frontendDelete"
         /\ procs[p].sessionId = procs[q].sessionId
         /\ Range(procs[p].fetched) = Range(procs[q].fetched))
        => WithoutGroupIds(procs[p].unified) = WithoutGroupIds(procs[q].unified)

\* Repeated uploads of the file a.pdf to session s1: the content and the
\* answer of the boundary extractor vary from upload to upload.
NextReingest ==
    \E p \in Procs :
        \/ \E d \in IngestDocs, throws \in BOOLEAN,
              response \in {<<>>, <<RawTitled(T_Intro)>>} :
                /\ throws => response = <<>>
                /\ StartIngest(p, "s1", "a.pdf", d, throws, response)
        \/ AddDocuments(p)
        \/ StoreDocumentTOC(p)
        \/ FetchDocumentTOCs(p)
        \/ StoreSessionTOC(p)
        \/ StorageFailure(p)

SpecReingest == InitIngest /\ [][NextReingest]_vars

\* the document_toc rows with the key storeDocumentTOC of request p uses
RowsWithKeyOf(rows, p) ==
    {r \in rows :
        /\ r.session_id = procs[p].sessionId
        /\ r.file_hash = GenerateFileHash(JoinContent(procs[p].docs), procs[p].filename)}

\* C9: every storeDocumentTOC leaves exactly one document_toc record for its
\* (session, content fingerprint), holding the sections just stored: a second
\* store of the same (session, filename, content) replaces the first.
C9_IdempotentReingestion ==
    [][\A p \in Procs :
          (procs[p].pc = "added" /\ procs'[p].pc = "tocStored")
          => RowsWithKeyOf(documentToc', p)
                = {TocRecord(procs[p].sessionId, procs[p].filename,
                             procs[p].docs, procs[p].tocData)}]_vars

\* the same (session, filename, content) was stored twice with different
\* sections, and one record is left
C9_Witness ==
    \E p, q \in Procs :
        /\ p # q
        /\ HasStoredToc(p) /\ HasStoredToc(q)
        /\ procs[p].sessionId = procs[q].sessionId
        /\ procs[p].filename = procs[q].filename
        /\ procs[p].docs = procs[q].docs
        /\ procs[p].tocData # procs[q].tocData
        /\ Cardinality(RowsWithKeyOf(documentToc, p)) = 1

----------------------------------------------------------------------------
(* quiz-service, the retrievers and the quiz graph. *)

\* characters of content per estimated question (analyzeContentForQuestions)
CharsPerQuestion == 600

\* largest numQuestions of a request
MaxQuestions == 2
\* number of quiz-graph runs
MaxQuizCalls == 2

SectionIds == {"section_1", "section_2"}

\* analyzeContentForQuestions(content, requestedQuestions), content given by
\* its length
AnalyzeContentForQuestions(contentLength, requestedQuestions) ==
    LET estimatedQuestions == Max(1, contentLength \div CharsPerQuestion)
        needsExternalQuestions == estimatedQuestions < requestedQuestions
    IN [contentLength |-> contentLength,
        estimatedQuestions |-> estimatedQuestions,
        needsExternalQuestions |-> needsExternalQuestions,
        externalQuestionCount |->
            IF needsExternalQuestions
            THEN Max(0, requestedQuestions - estimatedQuestions) ELSE 0]

\* the rows of the chunk store, one per stored copy
RECURSIVE SumContentLength(_)
SumContentLength(entries) ==
    IF entries = {} THEN 0
    ELSE LET e == CHOOSE x \in entries : TRUE
         IN Len(e.row.pageContent) + SumContentLength(entries \ {e})

\* getSectionContent(sessionId, sectionId).length: the contents of the
\* section's chunks joined with '\n'
SectionContentLength(table, sessionId, sectionId) ==
    LET entries == {e \in table : /\ e.row.sessionId = sessionId
                                  /\ e.row.sectionId = sectionId}
    IN IF entries = {} THEN 0
       ELSE SumContentLength(entries) + Cardinality(entries) - 1

\* the length of totalContent in analyzeQuizContent and in
\* generateAdditionalQuestions restricted to sections with content: each
\* section's content followed by '\n'
RECURSIVE TotalContentLength(_, _, _)
TotalContentLength(table, sessionId, sectionIds) ==
    IF sectionIds = <<>> THEN 0
    ELSE LET l == SectionContentLength(table, sessionId, Head(sectionIds))
         IN (IF l > 0 THEN l + 1 ELSE 0)
            + TotalContentLength(table, sessionId, Tail(sectionIds))

\* contentAnalysis as analyzeQuizContent returns it
QuizContentAnalysis(table, sessionId, sectionIds, numQuestions) ==
    LET total == TotalContentLength(table, sessionId, sectionIds)
        analysis == AnalyzeContentForQuestions(total, numQuestions)
    IN IF total = 0
       THEN [analysis EXCEPT !.needsExternalQuestions = TRUE,
                             !.externalQuestionCount = numQuestions,
                             !.estimatedQuestions = 0]
       ELSE analysis

\* getUsedQuestions(sessionId, sectionIds); a query error yields []
GetUsedQuestions(rows, sessionId, sectionIds, queryError) ==
    IF queryError THEN {}
    ELSE {r.question_id : r \in {x \in rows : /\ x.session_id = sessionId
                                              /\ x.section_id \in Range(sectionIds)}}

\* the rows one storeQuizQuestions call upserts
QuestionRows(sessionId, sectionId, ids, questionType) ==
    {[session_id |-> sessionId, section_id |-> sectionId,
      question_id |-> ids[i], question_type |-> questionType] : i \in DOMAIN ids}

\* upsert(questionsToStore, { onConflict: 'session_id,section_id,question_id' })
UpsertQuizQuestions(rows, new) ==
    {r \in rows : ~\E n \in new : /\ n.session_id = r.session_id
                                  /\ n.section_id = r.section_id
                                  /\ n.question_id = r.question_id} \cup new

\* the loop `for (const sectionId of state.sectionIds) storeQuizQuestions(...)`
\* over the first count sections
RECURSIVE StoreForSections(_, _, _, _, _, _)
StoreForSections(rows, sessionId, sectionIds, count, ids, questionType) ==
    IF count = 0 THEN rows
    ELSE UpsertQuizQuestions(
             StoreForSections(rows, sessionId, sectionIds, count - 1, ids, questionType),
             QuestionRows(sessionId, sectionIds[count], ids, questionType))

\* allQuestions.map(q => q.id)
QuestionIds(questions) == [i \in DOMAIN questions |-> questions[i].id]

\* the record storeQuizSession inserts
QuizSessionRecord(sessionId, sectionIds, numQuestions, questionsUsed) ==
    [session_id |-> sessionId, section_ids |-> sectionIds,
     num_questions |-> numQuestions, questions_used |-> questionsUsed]

\* an upsert on session_id: the record takes the place of the session's
\* earlier records
UpsertQuizSession(rows, sessionId, sectionIds, numQuestions, questionsUsed) ==
    Append(SelectSeq(rows, LAMBDA r : r.session_id # sessionId),
           QuizSessionRecord(sessionId, sectionIds, numQuestions, questionsUsed))

\* storeQuizSession: insert one record into quiz_sessions
StoreQuizSession(rows, sessionId, sectionIds, numQuestions, questionsUsed) ==
    Append(rows, QuizSessionRecord(sessionId, sectionIds, numQuestions, questionsUsed))

\* response.questions.filter(q => !state.usedQuestionIds.includes(q.id))
FilterUnused(ids, used) == SelectSeq(ids, LAMBDA id : id \notin used)

\* the chunk rows of the store
ChunksOf(table) == {e.row : e \in table}

\* SimplifiedSectionRetriever's direct query: chunks of the session tagged
\* with one of the section ids
DirectQuery(table, sessionId, sectionIds) ==
    {r \in ChunksOf(table) : r.sessionId = sessionId /\ r.sectionId \in Range(sectionIds)}

\* a similarity search of the vector store under a metadata filter: None is
\* no filter ({}), Some(s) is { sessionId: s }.  The store holds fewer chunks
\* than k, so every matching chunk is returned.
SimilaritySearch(table, filter) ==
    {r \in ChunksOf(table) : filter = None \/ r.sessionId = filter[1]}

\* the metadata filters a caller puts in config.configurable.filterKwargs:
\* the default {} or createSessionFilter(sessionId)
FilterInputs(sessionId) == {None, Some(sessionId)}

\* what the quiz model answers: question ids without repetition
DocResponses == {<<>>, <<"q1">>, <<"q2">>, <<"q1", "q2">>, <<"q2", "q1">>}
ExternalResponses == {<<>>, <<"ext_q1">>}

\* the section sets of a request
SectionIdInputs == {<<>>, <<"section_1">>, <<"section_1", "section_2">>}

\* questions with the generation pass that produced them
FromPass(ids, pass) == [i \in DOMAIN ids |-> [id |-> ids[i], pass |-> pass]]

\* quiz graph, node analyzeQuizContent, on the input of a new run
AnalyzeQuizContent(sessionId, sectionIds, numQuestions, filterKwargs, queryError) ==
    /\ quiz.pc = "idle"
    /\ Len(quizLog) < MaxQuizCalls
    /\ quiz' = [IdleQuiz EXCEPT
                   !.pc = "analyzed",
                   !.sessionId = sessionId,
                   !.sectionIds = sectionIds,
                   !.numQuestions = numQuestions,
                   !.filterKwargs = filterKwargs,
                   !.usedQuestionIds =
                       GetUsedQuestions(quizQuestions, sessionId, sectionIds, queryError),
                   !.contentAnalysis =
                       QuizContentAnalysis(documents, sessionId, sectionIds, numQuestions)]
    /\ UNCHANGED <<tocVars, storeVars, uuidCounter, now, procs, sweepVars,
                   quizQuestions, quizSessions, quizLog, quizState, onCompleteCalls>>

\* the record of a run that ended with an error
FailedRun ==
    [sessionId |-> quiz.sessionId, sectionIds |-> quiz.sectionIds,
     numQuestions |-> quiz.numQuestions, status |-> "failed", questions |-> <<>>,
     requests |-> <<>>, externalRequested |-> None,
     contentAnalysis |-> quiz.contentAnalysis]

\* quiz graph, node retrieveQuizContent.  outcome names the path taken:
\*   "direct"   section ids given, the retriever's store query succeeds;
\*   "base"     section ids given, the store query fails or throws and the
\*              retriever's super._getRelevantDocuments answers: the base
\*              retriever was built by super(vectorStore), without the
\*              configured filter;
\*   "catch"    section ids given, the retriever throws and the catch block
\*              retrieves with makeRetriever(config);
\*   "general"  no section ids: makeRetriever(config);
\*   "throws"   the retrieval in the catch block throws as well.
RetrieveQuizContent(outcome) ==
    /\ quiz.pc = "analyzed"
    /\ outcome \in {"direct", "base", "catch"} => quiz.sectionIds # <<>>
    /\ outcome = "general" => quiz.sectionIds = <<>>
    /\ IF outcome = "throws"
       THEN /\ quiz' = IdleQuiz
            /\ quizLog' = Append(quizLog, FailedRun)
       ELSE /\ quiz' = [quiz EXCEPT
                          !.pc = "retrieved",
                          !.retrievedBy = outcome,
                          !.documents =
                              CASE outcome = "direct" ->
                                       DirectQuery(documents, quiz.sessionId, quiz.sectionIds)
                                [] outcome = "base" -> SimilaritySearch(documents, None)
                                [] OTHER -> SimilaritySearch(documents, quiz.filterKwargs)]
            /\ UNCHANGED quizLog
    /\ UNCHANGED <<tocVars, storeVars, uuidCounter, now, procs, sweepVars,
                   quizQuestions, quizSessions, quizState, onCompleteCalls>>

\* quiz graph, node generateQuiz.  docResponse, externalResponse and
\* topUpResponse are the ids the three generators answer with when asked.
\* The record of the run lists the generators in the order they were asked
\* (requests), the count asked of the external generator
\* (externalRequested) and the contentAnalysis the node read;
\* failure names the call that throws ("none", "docModel", "docStore",
\* "extStore", "sessionStore") and failSection the section whose
\* storeQuizQuestions call fails.
GenerateQuiz(docResponse, externalResponse, topUpResponse, failure, failSection) ==
    /\ quiz.pc = "retrieved"
    /\ LET sessionId == quiz.sessionId
           sectionIds == quiz.sectionIds
           numQuestions == quiz.numQuestions
           hasDocuments == quiz.documents # {}
           \* document pass
           newQuestions == IF hasDocuments
                           THEN FilterUnused(docResponse, quiz.usedQuestionIds)
                           ELSE <<>>
           afterDocuments ==
               IF hasDocuments /\ failure # "docModel"
               THEN StoreForSections(quizQuestions, sessionId, sectionIds,
                                     IF failure = "docStore" THEN failSection - 1
                                     ELSE Len(sectionIds),
                                     newQuestions, "document")
               ELSE quizQuestions
           \* external pass
           needsExternalQuestions ==
               \/ quiz.contentAnalysis.needsExternalQuestions
               \/ ~hasDocuments
               \/ Len(newQuestions) = 0
           externalQuestionCount ==
               IF quiz.contentAnalysis.externalQuestionCount # 0
               THEN quiz.contentAnalysis.externalQuestionCount
               ELSE IF numQuestions - Len(newQuestions) # 0
                    THEN numQuestions - Len(newQuestions)
                    ELSE numQuestions
           externalQuestions == IF needsExternalQuestions THEN externalResponse ELSE <<>>
           afterExternal ==
               IF needsExternalQuestions
               THEN StoreForSections(afterDocuments, sessionId, sectionIds,
                                     IF failure = "extStore" THEN failSection - 1
                                     ELSE Len(sectionIds),
                                     externalQuestions, "external")
               ELSE afterDocuments
           beforeTopUp == FromPass(newQuestions, "document")
                          \o FromPass(externalQuestions, "external")
           \* top-up pass (generateAdditionalQuestions)
           topUpAsked == Len(beforeTopUp) < numQuestions
           additionalQuestions ==
               IF topUpAsked /\ TotalContentLength(documents, sessionId, sectionIds) > 0
               THEN FilterUnused(topUpResponse, quiz.usedQuestionIds)
               ELSE <<>>
           allQuestions == beforeTopUp \o FromPass(additionalQuestions, "topup")
           returned == SubSeq(allQuestions, 1, Min(numQuestions, Len(allQuestions)))
           thrown == failure # "none"
           requests == (IF hasDocuments THEN <<"document">> ELSE <<>>)
                       \o (IF needsExternalQuestions THEN <<"external">> ELSE <<>>)
                       \o (IF topUpAsked THEN <<"topup">> ELSE <<>>)
       IN /\ failure = "docModel" => hasDocuments
          /\ failure = "docStore" => hasDocuments /\ failSection <= Len(sectionIds)
          /\ failure = "extStore" => needsExternalQuestions /\ failSection <= Len(sectionIds)
          /\ failure \in {"none", "docModel", "sessionStore"} => failSection = 1
          /\ quizQuestions' = CASE failure = "docModel" -> quizQuestions
                                [] failure = "docStore" -> afterDocuments
                                [] OTHER -> afterExternal
          /\ quizSessions' =
                IF thrown THEN quizSessions
                ELSE StoreQuizSession(quizSessions, sessionId, sectionIds,
                                      numQuestions, QuestionIds(returned))
          /\ quizLog' =
                Append(quizLog,
                       IF thrown THEN FailedRun
                       ELSE [sessionId |-> sessionId, sectionIds |-> sectionIds,
                             numQuestions |-> numQuestions, status |-> "ok",
                             questions |-> returned, requests |-> requests,
                             externalRequested |->
                                 IF needsExternalQuestions
                                 THEN Some(externalQuestionCount) ELSE None,
                             contentAnalysis |-> quiz.contentAnalysis])
    /\ quiz' = IdleQuiz
    /\ UNCHANGED <<tocVars, storeVars, uuidCounter, now, procs, sweepVars,
                   quizState, onCompleteCalls>>

\* a stored chunk of a document ingested at time 0
StoredChunk(sessionId, sectionId, content) ==
    [row |-> [sessionId |-> sessionId, filename |-> "a.pdf", sectionId |-> sectionId,
              documentIndex |-> 0, lastAccessed |-> 0, pageContent |-> content],
     copy |-> 1]

Text100 ==
    "xxxxxxxxxxxxxxxxxxxxxxxxxxxxxxxxxxxxxxxxxxxxxxxxxxxxxxxxxxxxxxxxxxxxxxxxxxxxxxxxxxxxxxxxxxxxxxxxxxxx"
Text600 == Text100 \o Text100 \o Text100 \o Text100 \o Text100 \o Text100
\* content for one estimated question, and content for two
ShortContent == "x"
LongContent == Text600 \o Text600

\* The quiz graph runs on a chunk store that earlier ingestions filled:
\* session s2 holds a chunk tagged section_1, session s1 holds nothing, a
\* short chunk or a long chunk under section_1.
InitQuiz ==
    /\ TocOff
    /\ \E own \in {{}, {StoredChunk("s1", "section_1", ShortContent)},
                   {StoredChunk("s1", "section_1", LongContent)}} :
          documents = own \cup {StoredChunk("s2", "section_1", "y")}
    /\ documentToc = {}
    /\ sessionToc = [s \in Sessions |-> None]
    /\ uuidCounter = 0
    /\ now = 0
    /\ ProcsIdle
    /\ QuizOff
    /\ CleanupOff

NextQuiz ==
    \/ \E sectionIds \in SectionIdInputs, numQuestions \in 1..MaxQuestions,
          filterKwargs \in FilterInputs("s1"), queryError \in BOOLEAN :
            AnalyzeQuizContent("s1", sectionIds, numQuestions, filterKwargs, queryError)
    \/ \E outcome \in {"direct", "base", "catch", "general", "throws"} :
            RetrieveQuizContent(outcome)
    \/ \E docResponse \in DocResponses, externalResponse \in ExternalResponses,
          topUpResponse \in DocResponses,
          failure \in {"none", "docModel", "docStore", "extStore", "sessionStore"},
          failSection \in 1..2 :
            GenerateQuiz(docResponse, externalResponse, topUpResponse, failure, failSection)

SpecQuiz == InitQuiz /\ [][NextQuiz]_vars

\* C4: for two runs with the same session and the same non-empty section
\* set, no document-grounded question (document pass or top-up pass) returned
\* by the later run has the id of a question returned by the earlier run.
C4_LedgerNoRepeat ==
    \A i, j \in DOMAIN quizLog :
        (/\ i < j
         /\ quizLog[i].status = "ok" /\ quizLog[j].status = "ok"
         /\ quizLog[i].sessionId = quizLog[j].sessionId
         /\ quizLog[i].sectionIds = quizLog[j].sectionIds
         /\ quizLog[i].sectionIds # <<>>)
        => \A m \in DOMAIN quizLog[j].questions :
              quizLog[j].questions[m].pass \in {"document", "topup"}
              => \A k \in DOMAIN quizLog[i].questions :
                    quizLog[i].questions[k].id # quizLog[j].questions[m].id

\* C10: every chunk the retrieval step hands to generateQuiz belongs to the
\* session of the request.
C10_RetrievalSessionIsolation ==
    quiz.pc = "retrieved" =>
        \A d \in quiz.documents : d.sessionId = quiz.sessionId

\* C11: a run that returns for a request of Q questions returns exactly Q
\* questions; a shortfall of the three generators is never returned as a
\* shorter list.
C11_ExactCountOrError ==
    \A i \in DOMAIN quizLog :
        quizLog[i].status = "ok"
        => Len(quizLog[i].questions) = quizLog[i].numQuestions

\* C14: for content of length L and a request of Q questions the estimate is
\* max(1, floor(L / 600)), the external generator is asked exactly when the
\* estimate is below Q, and it is then asked for Q - estimate questions.
C14_ContentSufficiencyPolicy ==
    \A i \in DOMAIN quizLog :
        quizLog[i].status = "ok"
        => LET r == quizLog[i]
               Q == r.numQuestions
               estimate == Max(1, r.contentAnalysis.contentLength \div CharsPerQuestion)
           IN /\ r.contentAnalysis.estimatedQuestions = estimate
              /\ (r.externalRequested # None) <=> (estimate < Q)
              /\ r.externalRequested # None => r.externalRequested[1] = Q - estimate

\* C18: when the section-scoped store query of the retriever fails, the
\* retrieval step hands no chunk to generateQuiz.
C18_ScopedQueryFailureYieldsNoContent ==
    (quiz.pc = "retrieved" /\ quiz.retrievedBy \in {"base", "catch"})
    => quiz.documents = {}

\* C19: in a run whose document pass was asked and left no usable question,
\* the external generator is asked only after the top-up pass.
C19_TopUpBeforeExternal ==
    \A i \in DOMAIN quizLog :
        LET r == quizLog[i]
        IN (/\ r.status = "ok"
            /\ "document" \in Range(r.requests)
            /\ \A m \in DOMAIN r.questions : r.questions[m].pass # "document")
           => \A k \in DOMAIN r.requests :
                 r.requests[k] = "external"
                 => \E j \in 1..(k - 1) : r.requests[j] = "topup"

\* Section quizzes of session s1 over section_1 with the ledger readable:
\* the retrieval succeeds or fails altogether, the generators answer anything
\* and the insert into quiz_sessions succeeds or fails.
NextLedger ==
    \/ \E numQuestions \in 1..MaxQuestions :
            AnalyzeQuizContent("s1", <<"section_1">>, numQuestions, Some("s1"), FALSE)
    \/ \E outcome \in {"direct", "throws"} : RetrieveQuizContent(outcome)
    \/ \E docResponse \in DocResponses, externalResponse \in ExternalResponses,
          topUpResponse \in {<<>>, <<"q2">>}, failure \in {"none", "sessionStore"} :
            GenerateQuiz(docResponse, externalResponse, topUpResponse, failure, 1)

SpecLedger == InitQuiz /\ [][NextLedger]_vars

\* C20: a run that returns appends one record to quiz_sessions whose
\* questions_used are the ids of the returned questions in the returned
\* order; a run that fails, and every other step, leaves quiz_sessions as it
\* was.
C20_OneSessionRecordPerRun ==
    [][IF Len(quizLog') = Len(quizLog) + 1 /\ quizLog'[Len(quizLog')].status = "ok"
       THEN LET r == quizLog'[Len(quizLog')]
            IN /\ Len(quizSessions') = Len(quizSessions) + 1
               /\ SubSeq(quizSessions', 1, Len(quizSessions)) = quizSessions
               /\ quizSessions'[Len(quizSessions')].session_id = r.sessionId
               /\ quizSessions'[Len(quizSessions')].questions_used
                     = [m \in DOMAIN r.questions |-> r.questions[m].id]
       ELSE quizSessions' = quizSessions]_vars

\* two runs returned, the later one two different questions, and
\* quiz_sessions holds their two records
C20_Witness ==
    /\ Len(quizSessions) = 2
    /\ Len(quizSessions[2].questions_used) = 2
    /\ quizSessions[2].questions_used[1] # quizSessions[2].questions_used[2]
    /\ \E i \in DOMAIN quizLog :
          /\ quizLog[i].status = "ok"
          /\ [m \in DOMAIN quizLog[i].questions |-> quizLog[i].questions[m].id]
                = quizSessions[2].questions_used

----------------------------------------------------------------------------
(* Cleanup: CleanupService, POST /api/cleanup and POST                      *)
(* /api/cleanup-comprehensive.  Time is counted in hours.                    *)

\* DEFAULT_TTL = 1 * 60 * 60 * 1000 ms: one hour
DEFAULT_TTL == 1

\* the clock stops here
MaxTime == 2
\* number of cleanup requests
MaxCleanups == 2

\* .lt('metadata->>lastAccessed', expiredThreshold.toString()) with
\* expiredThreshold = now - DEFAULT_TTL.  Both sides are millisecond
\* timestamps of thirteen digits, so the comparison of the texts is the
\* comparison of the numbers.
ExpiredChunks(table, time) == {e \in table : e.row.lastAccessed < time - DEFAULT_TTL}

\* the chunks of one session
SessionChunks(table, sessionId) == {e \in table : e.row.sessionId = sessionId}

\* a deletion that removes the expired chunks of every session along with the
\* chunks of the named session
CleanupSessionAndExpired(table, sessionId, dryRun, time) ==
    IF dryRun THEN table
    ELSE IF sessionId # None
         THEN (table \ SessionChunks(table, sessionId[1])) \ ExpiredChunks(table, time)
         ELSE table \ ExpiredChunks(table, time)

\* the deletion of cleanupExpiredDocuments(options) and of POST /api/cleanup:
\* the session's chunks when a session id is given, the expired chunks
\* otherwise; a dry run deletes nothing
CleanupExpiredDocuments(table, sessionId, dryRun, time) ==
    IF dryRun THEN table
    ELSE IF sessionId # None THEN table \ SessionChunks(table, sessionId[1])
         ELSE table \ ExpiredChunks(table, time)

\* getActiveSessions(): the sessions seen less than DEFAULT_TTL ago
GetActiveSessions(registered, time) ==
    {s \in Sessions : registered[s] # None /\ time - registered[s][1] < DEFAULT_TTL}

\* getActiveSessions() also drops the other sessions from the map
PruneSessions(registered, time) ==
    [s \in Sessions |-> IF s \in GetActiveSessions(registered, time)
                        THEN registered[s] ELSE None]

\* the deletion of cleanupInactiveSessions(options): every chunk of a session
\* that is not active; options.sessionId is not read
CleanupInactiveSessions(table, registered, dryRun, time) ==
    IF dryRun THEN table
    ELSE {e \in table : e.row.sessionId \in GetActiveSessions(registered, time)}

\* getSessionTOC(sessionId): the stored outline, or null (None) when no
\* record exists
GetSessionTOC(table, sessionId) == table[sessionId]

\* the passage of an hour
Tick ==
    /\ now < MaxTime
    /\ now' = now + 1
    /\ UNCHANGED <<tocVars, storeVars, uuidCounter, procs, quizVars, sweepVars>>

\* cleanupService.registerSession(sessionId)
RegisterSession(sessionId) ==
    /\ activeSessions' = [activeSessions EXCEPT ![sessionId] = Some(now)]
    /\ UNCHANGED <<tocVars, storeVars, uuidCounter, now, procs, quizVars, cleanup,
                   heartbeats>>

\* the cleanup requests counted, and the last one described: the session id
\* it named, whether it was a dry run, whether it succeeded and how many
\* chunk rows it removed from the store
CleanupRecord(sessionId, dryRun, status) ==
    [runs |-> cleanup.runs + 1,
     last |-> Some([sessionId |-> sessionId, dryRun |-> dryRun, status |-> status,
                    deleted |-> Cardinality(documents \ documents')])]

\* POST /api/cleanup with body { sessionId }; storeError: a store call fails
\* and the endpoint answers 500
CleanupRoute(sessionId, storeError) ==
    /\ cleanup.runs < MaxCleanups
    /\ documents' = IF storeError THEN documents
                    ELSE CleanupExpiredDocuments(documents, sessionId, FALSE, now)
    /\ cleanup' = CleanupRecord(sessionId, FALSE,
                                IF storeError THEN "failed" ELSE "ok")
    /\ UNCHANGED <<tocVars, documentToc, sessionToc, uuidCounter, now, procs,
                   quizVars, activeSessions, heartbeats>>

\* POST /api/cleanup-comprehensive with body { sessionId, dryRun, strategy }.
\* failedStep is 0 when every store call succeeds, 1 when the first cleanup
\* of the strategy throws and 2 when the second one of 'comprehensive' does.
CleanupComprehensiveRoute(strategy, sessionId, dryRun, failedStep) ==
    /\ cleanup.runs < MaxCleanups
    /\ failedStep = 2 => strategy = "comprehensive"
    /\ LET afterExpired ==
               IF strategy \in {"expired", "comprehensive"} /\ failedStep # 1
               THEN CleanupExpiredDocuments(documents, sessionId, dryRun, now)
               ELSE documents
           inactiveRuns ==
               \/ strategy = "inactive" /\ failedStep = 0
               \/ strategy = "comprehensive" /\ failedStep # 1
           inactiveDeletes == inactiveRuns /\ failedStep = 0
       IN /\ documents' = IF inactiveDeletes
                          THEN CleanupInactiveSessions(afterExpired, activeSessions,
                                                       dryRun, now)
                          ELSE afterExpired
          /\ activeSessions' = IF inactiveRuns THEN PruneSessions(activeSessions, now)
                               ELSE activeSessions
    /\ cleanup' = CleanupRecord(sessionId, dryRun,
                                IF failedStep = 0 THEN "ok" ELSE "failed")
    /\ UNCHANGED <<tocVars, documentToc, sessionToc, uuidCounter, now, procs, quizVars,
                   heartbeats>>

InitSweep ==
    /\ TocOff
    /\ StoresEmpty
    /\ uuidCounter = 0
    /\ now = 0
    /\ ProcsIdle
    /\ QuizOff
    /\ CleanupOff

\* the session whose upload request p serves
UploaderOf(p) == IF p = 1 THEN "s1" ELSE "s2"

\* no cleanup request was served yet
FirstCleanup == cleanup.runs = 0

\* each session uploads a one-chunk file for which the boundary extractor
\* fails; the uploads are interleaved with the clock and one cleanup request
NextSweep ==
    \/ \E p \in Procs :
        \/ StartIngest(p, UploaderOf(p), "a.pdf", <<Chunk(1, "x")>>, TRUE, <<>>)
        \/ AddDocuments(p)
        \/ StoreDocumentTOC(p)
        \/ FetchDocumentTOCs(p)
        \/ StoreSessionTOC(p)
        \/ StorageFailure(p)
    \/ Tick
    \/ \E s \in ClientSessions : RegisterSession(s)
    \/ \E sessionId \in {None} \cup {Some(s) : s \in ClientSessions}, storeError \in BOOLEAN :
        FirstCleanup /\ CleanupRoute(sessionId, storeError)
    \/ \E strategy \in {"expired", "inactive", "comprehensive"},
          sessionId \in {None} \cup {Some(s) : s \in ClientSessions},
          dryRun \in BOOLEAN, failedStep \in 0..2 :
        FirstCleanup /\ CleanupComprehensiveRoute(strategy, sessionId, dryRun, failedStep)

SpecSweep == InitSweep /\ [][NextSweep]_vars

\* every chunk of the session was last accessed more than DEFAULT_TTL ago,
\* the session is not registered as active, and no request of the session is
\* in flight
SessionExpired(sessionId) ==
    /\ SessionChunks(documents, sessionId) # {}
    /\ SessionChunks(documents, sessionId) \subseteq ExpiredChunks(documents, now)
    /\ sessionId \notin GetActiveSessions(activeSessions, now)
    /\ \A p \in Procs : procs[p].sessionId = sessionId => procs[p].pc \in {"done", "failed"}

\* no store holds anything of the session
NoSessionData(sessionId) ==
    /\ SessionChunks(documents, sessionId) = {}
    /\ \A r \in documentToc : r.session_id # sessionId
    /\ GetSessionTOC(sessionToc, sessionId) = None
    /\ \A r \in quizQuestions : r.session_id # sessionId
    /\ \A i \in DOMAIN quizSessions : quizSessions[i].session_id # sessionId

\* C5: when a cleanup request without a session id completes (not a dry
\* run), every session whose chunks were all last accessed more than
\* DEFAULT_TTL ago has nothing left in any store, and getSessionTOC returns
\* null for it.
C5_TTLEviction ==
    [][(/\ cleanup'.runs = cleanup.runs + 1
        /\ cleanup'.last[1].sessionId = None
        /\ ~cleanup'.last[1].dryRun
        /\ cleanup'.last[1].status = "ok")
       => \A s \in Sessions : SessionExpired(s) => NoSessionData(s)']_vars

----------------------------------------------------------------------------
(* The heartbeat route and the page that sends the heartbeats. *)

\* POST /api/heartbeat with body { sessionId }
HeartbeatPost(sessionId) ==
    /\ heartbeats' = [heartbeats EXCEPT ![sessionId] = Some(now)]
    /\ UNCHANGED <<tocVars, storeVars, uuidCounter, now, procs, quizVars,
                   activeSessions, cleanup>>

\* DELETE /api/heartbeat with body { sessionId }
HeartbeatDelete(sessionId) ==
    /\ heartbeats[sessionId] # None
    /\ heartbeats' = [heartbeats EXCEPT ![sessionId] = None]
    /\ UNCHANGED <<tocVars, storeVars, uuidCounter, now, procs, quizVars,
                   activeSessions, cleanup>>

\* the interval of the heartbeat route: it forgets the sessions whose last
\* heartbeat is more than HEARTBEAT_TIMEOUT (five minutes) old, which on a
\* clock of hours is every session whose last heartbeat is not of this hour
HeartbeatExpiry ==
    /\ \E s \in Sessions : heartbeats[s] # None /\ heartbeats[s][1] < now
    /\ heartbeats' = [s \in Sessions |->
                         IF heartbeats[s] # None /\ heartbeats[s][1] < now
                         THEN None ELSE heartbeats[s]]
    /\ UNCHANGED <<tocVars, storeVars, uuidCounter, now, procs, quizVars,
                   activeSessions, cleanup>>

\* an hour passes while the page of the session is open: the page posts a
\* heartbeat every 30 seconds, so the last one is of the new hour
OpenPageTick(sessionId) ==
    /\ now < MaxTime
    /\ now' = now + 1
    /\ heartbeats' = [heartbeats EXCEPT ![sessionId] = Some(now + 1)]
    /\ UNCHANGED <<tocVars, storeVars, uuidCounter, procs, quizVars,
                   activeSessions, cleanup>>

\* the session whose page stays open
OpenSession == "s1"

\* the page of s1 is mounted and has sent its first heartbeat
InitSession ==
    /\ TocOff
    /\ StoresEmpty
    /\ uuidCounter = 0
    /\ now = 0
    /\ ProcsIdle
    /\ QuizOff
    /\ activeSessions = [s \in Sessions |-> None]
    /\ cleanup = [runs |-> 0, last |-> None]
    /\ heartbeats = [s \in Sessions |-> IF s = OpenSession THEN Some(0) ELSE None]

\* the file request p uploads
FileOf(p) == IF p = 1 THEN "a.pdf" ELSE "b.pdf"

\* Session s1 keeps its page open, so that no hour passes without its
\* heartbeats, and uploads two one-chunk files at any times; session s2 only
\* sends heartbeats; one cleanup request is served.
NextSession ==
    \/ \E p \in Procs :
        \/ StartIngest(p, OpenSession, FileOf(p), <<Chunk(1, "x")>>, TRUE, <<>>)
        \/ AddDocuments(p)
        \/ StoreDocumentTOC(p)
        \/ FetchDocumentTOCs(p)
        \/ StoreSessionTOC(p)
        \/ StorageFailure(p)
    \/ OpenPageTick(OpenSession)
    \/ HeartbeatPost("s2")
    \/ HeartbeatDelete("s2")
    \/ HeartbeatExpiry
    \/ RegisterSession(OpenSession)
    \/ \E sessionId \in {None, Some(OpenSession)}, storeError \in BOOLEAN :
        FirstCleanup /\ CleanupRoute(sessionId, storeError)
    \/ \E strategy \in {"expired", "inactive", "comprehensive"},
          sessionId \in {None, Some(OpenSession)},
          dryRun \in BOOLEAN, failedStep \in 0..2 :
        FirstCleanup /\ CleanupComprehensiveRoute(strategy, sessionId, dryRun, failedStep)

SpecSession == InitSession /\ [][NextSession]_vars

\* a cleanup request without a session id has just been served
SweepServed ==
    /\ cleanup'.runs = cleanup.runs + 1
    /\ cleanup'.last[1].sessionId = None

\* C12: a sweep (a cleanup request without a session id) deletes no chunk of
\* a session whose last heartbeat is less than DEFAULT_TTL old; here of s1,
\* which has sent heartbeats all along.
C12_HeartbeatKeepsSessionAlive ==
    [][(/\ SweepServed
        /\ heartbeats[OpenSession] # None
        /\ now - heartbeats[OpenSession][1] < DEFAULT_TTL)
       => SessionChunks(documents', OpenSession)
             = SessionChunks(documents, OpenSession)]_vars

\* C13: when a sweep completes with no request in flight, it has deleted all
\* the chunks of a session or none of them.
C13_ExpiryPerSession ==
    [][(/\ SweepServed
        /\ ~cleanup'.last[1].dryRun
        /\ cleanup'.last[1].status = "ok"
        /\ \A p \in Procs : procs[p].pc \in {"idle", "done", "failed"})
       => \A s \in Sessions :
             \/ SessionChunks(documents', s) = {}
             \/ SessionChunks(documents', s) = SessionChunks(documents, s)]_vars

----------------------------------------------------------------------------
(* Eviction of one session, repeated. *)

\* Each session uploads a one-chunk file; the clock advances; POST
\* /api/cleanup and cleanupExpiredDocuments (strategy 'expired') are
\* requested up to MaxCleanups times.
NextEvict ==
    \/ \E p \in {1, 2} :
        \/ StartIngest(p, UploaderOf(p), "a.pdf", <<Chunk(1, "x")>>, TRUE, <<>>)
        \/ AddDocuments(p)
        \/ StoreDocumentTOC(p)
        \/ FetchDocumentTOCs(p)
        \/ StoreSessionTOC(p)
        \/ StorageFailure(p)
    \/ Tick
    \/ \E sessionId \in {None} \cup {Some(s) : s \in ClientSessions}, storeError \in BOOLEAN :
        CleanupRoute(sessionId, storeError)
    \/ \E sessionId \in {None} \cup {Some(s) : s \in ClientSessions},
          dryRun \in BOOLEAN, failedStep \in 0..1 :
        CleanupComprehensiveRoute("expired", sessionId, dryRun, failedStep)

SpecEvict == InitSweep /\ [][NextEvict]_vars

\* C17: an eviction of a session that has no chunk left in the store, served
\* by a store that answers, ends without an error, deletes nothing and leaves
\* every store as it was.
C17_EvictionIdempotent ==
    [][\A s \in Sessions :
          (/\ SessionChunks(documents, s) = {}
           /\ \/ CleanupRoute(Some(s), FALSE)
              \/ CleanupComprehensiveRoute("expired", Some(s), FALSE, 0))
          => /\ cleanup'.last[1].status = "ok"
             /\ cleanup'.last[1].deleted = 0
             /\ storeVars' = storeVars
             /\ quizQuestions' = quizQuestions
             /\ quizSessions' = quizSessions]_vars

\* the session had its file ingested, a first cleanup removed its chunk, and
\* a second eviction of the session was served and deleted nothing while the
\* other session still holds an expired chunk
C17_Witness ==
    \E s \in Sessions :
        /\ cleanup.runs = 2
        /\ cleanup.last[1] = [sessionId |-> Some(s), dryRun |-> FALSE,
                              status |-> "ok", deleted |-> 0]
        /\ \E r \in documentToc : r.session_id = s
        /\ SessionChunks(documents, s) = {}
        /\ \E t \in Sessions \ {s} :
              SessionChunks(documents, t) \cap ExpiredChunks(documents, now) # {}

----------------------------------------------------------------------------
(* Fetching an outline. *)

\* getDocumentTOC(sessionId, filename): select ... .single().  The store
\* answers .single() with the row when exactly one row matches and with the
\* error PGRST116 when none or several match; the function returns null on
\* PGRST116 and throws on any other error (storeError).
GetDocumentTOC(rows, sessionId, filename, storeError) ==
    LET matching == {r \in rows : r.session_id = sessionId /\ r.filename = filename}
    IN IF storeError THEN [throws |-> TRUE, data |-> None]
       ELSE IF Cardinality(matching) = 1
            THEN [throws |-> FALSE, data |-> Some(CHOOSE r \in matching : TRUE)]
            ELSE [throws |-> FALSE, data |-> None]

\* C16: a fetch of a session outline or of a document outline that meets no
\* storage failure returns without raising, and returns not-found (null) only
\* when no matching outline record is stored.
C16_NotFoundOnlyWhenAbsent ==
    \A s \in Sessions :
        /\ GetSessionTOC(sessionToc, s) = None => sessionToc[s] = None
        /\ \A f \in Filenames :
              LET result == GetDocumentTOC(documentToc, s, f, FALSE)
              IN /\ ~result.throws
                 /\ result.data = None
                    => \A r \in documentToc : ~(r.session_id = s /\ r.filename = f)

----------------------------------------------------------------------------
(* Grouping across documents and the coverage of a normalised outline. *)

\* the titles of the sections of one fetched document outline
TitlesOf(docTOC) == {docTOC.toc_data[i].title : i \in DOMAIN docTOC.toc_data}

\* C21: when updateSessionTOC of a session fetched the outlines of two
\* documents, one with the single section "Introduction" and the other with
\* the single section "Intro to the Topic", the unified outline is one grouped
\* section with exactly one related section.
C21_IntroductionTitlesGrouped ==
    \A p \in Procs :
        (/\ procs[p].pc \in {"fetched", "done"}
         /\ procs[p].kind = "ingest"
         /\ Len(procs[p].fetched) = 2
         /\ procs[p].fetched[1].filename # procs[p].fetched[2].filename
         /\ \A i \in 1..2 : Len(procs[p].fetched[i].toc_data) = 1
         /\ {TitlesOf(procs[p].fetched[1]), TitlesOf(procs[p].fetched[2])}
                = {{T_Intro}, {T_IntroTopic}})
        => /\ Len(procs[p].unified) = 1
           /\ procs[p].unified[1].isGrouped
           /\ Len(procs[p].unified[1].relatedSections) = 1

\* The harness on a document of ScenarioChunks chunks for which the boundary
\* extractor proposes one section with both boundaries given: any start from
\* 0 to past the end, any end from 0 to past the end or far past it.
InitOneProposal ==
    /\ docs = [i \in 1..ScenarioChunks |-> [pageNumber |-> 0, pageContent |-> "x"]]
    /\ aiThrows = FALSE
    /\ \E start \in 0..(ScenarioChunks + 2),
          end \in 0..(ScenarioChunks + 2) \cup {5 * ScenarioChunks} :
         aiResponse = <<[id |-> "", title |-> <<>>, level |-> 1, pageNumber |-> None,
                         startIndex |-> Some(start), endIndex |-> Some(end)]>>
    /\ tocData = <<>>
    /\ taggedIds = <<>>
    /\ tocPc = "input"
    /\ StoresEmpty
    /\ uuidCounter = 0
    /\ now = 0
    /\ ProcsIdle
    /\ QuizOff
    /\ CleanupOff

SpecOneProposal == InitOneProposal /\ [][NextTOC]_vars

\* the proposed section lies inside the document: 0 <= start <= end <= N - 1
WellFormed(section, N) ==
    /\ 0 <= section.startIndex[1]
    /\ section.startIndex[1] <= section.endIndex[1]
    /\ section.endIndex[1] <= N - 1

\* the chunk indices the sections cover
CoveredIndices(sections) ==
    UNION {sections[k].startIndex..sections[k].endIndex : k \in DOMAIN sections}

\* C22: when the boundary extractor returns a single section whose boundaries
\* do not lie inside the document (such as start 5, end 50 for ten chunks),
\* the normalised outline covers exactly the chunk indices 0..N-1: no index
\* outside the document and none missing.
C22_MalformedSingleSectionCoversAll ==
    (/\ tocPc = "done"
     /\ Len(aiResponse) = 1
     /\ ~WellFormed(aiResponse[1], Len(docs)))
    => CoveredIndices(tocData) = 0..(Len(docs) - 1)

\* the proposal (5, 5 * N) was normalised to the one section [0, N - 1]
C22_Witness ==
    /\ tocPc = "done"
    /\ Len(docs) = ScenarioChunks
    /\ aiResponse[1].startIndex = Some(5)
    /\ aiResponse[1].endIndex = Some(5 * ScenarioChunks)
    /\ Len(tocData) = 1
    /\ tocData[1].startIndex = 0
    /\ tocData[1].endIndex = ScenarioChunks - 1

\* what identifies a section of a document outline in a unified outline
SectionKey(section) ==
    [filename |-> section.filename, id |-> section.id, title |-> section.title,
     startIndex |-> section.startIndex, endIndex |-> section.endIndex]

\* the sections of a unified outline, the top-level ones and the ones in the
\* relatedSections lists, as keys
RECURSIVE UnifiedMembers(_)
UnifiedMembers(unified) ==
    IF unified = <<>> THEN <<>>
    ELSE LET u == Head(unified)
         IN <<SectionKey(u)>>
            \o [m \in DOMAIN u.relatedSections |-> SectionKey(u.relatedSections[m])]
            \o UnifiedMembers(Tail(unified))

\* number of positions of seq that hold x
Occurrences(seq, x) == Cardinality({i \in DOMAIN seq : seq[i] = x})

\* C23: the unified outline updateSessionTOC computes holds every section of
\* every fetched document outline exactly once, as a top-level section or in
\* one relatedSections list, and nothing else; this includes sections of
\* different documents that carry the same section id.
C23_NoSectionLost ==
    \A p \in Procs :
        (/\ procs[p].pc \in {"fetched", "done"}
         /\ procs[p].kind \in {"ingest", "backendDelete"})
        => LET all == FlattenSections(procs[p].fetched)
               keys == [i \in DOMAIN all |-> SectionKey(all[i])]
               members == UnifiedMembers(procs[p].unified)
           IN /\ Len(members) = Len(keys)
              /\ \A i \in DOMAIN keys :
                    Occurrences(members, keys[i]) = Occurrences(keys, keys[i])

----------------------------------------------------------------------------
(* Cleanup requests served while an ingestion is in flight. *)

\* request p is an ingestion between its tagging and its last store call
InFlight(p) ==
    /\ procs[p].kind = "ingest"
    /\ procs[p].pc \in {"tagged", "added", "tocStored", "fetched"}

\* Uploads of one file per request to the session s1, for which the boundary
\* extractor fails; a cleanup request is served only while one of the
\* uploads is in flight.
NextRace ==
    \/ \E p \in Procs :
        \/ StartIngest(p, "s1", FileOf(p), <<Chunk(1, "x")>>, TRUE, <<>>)
        \/ AddDocuments(p)
        \/ StoreDocumentTOC(p)
        \/ FetchDocumentTOCs(p)
        \/ StoreSessionTOC(p)
    \/ Tick
    \/ \E sessionId \in {None} \cup {Some(s) : s \in ClientSessions} :
        /\ \E p \in Procs : InFlight(p)
        /\ CleanupRoute(sessionId, FALSE)
    \/ \E strategy \in {"expired", "inactive", "comprehensive"},
          sessionId \in {None} \cup {Some(s) : s \in ClientSessions}, dryRun \in BOOLEAN :
        /\ \E p \in Procs : InFlight(p)
        /\ CleanupComprehensiveRoute(strategy, sessionId, dryRun, 0)

SpecRace == InitSweep /\ [][NextRace]_vars

\* an outline of file f is stored for the session exactly when chunks of f
\* are
StoresConsistent(sessionId) ==
    \A f \in Filenames :
        (\E r \in documentToc : r.session_id = sessionId /\ r.filename = f)
        <=> (\E e \in documents : e.row.sessionId = sessionId /\ e.row.filename = f)

\* C24: when a cleanup request was served during an ingestion and every
\* ingestion has finished, each session's stores are consistent: no document
\* outline is stored whose chunks are all gone, and no chunks are stored
\* without their document outline.
C24_SweepSafeDuringIngestion ==
    (/\ cleanup.runs > 0
     /\ \A p \in Procs : procs[p].pc \in {"idle", "done"})
    => \A s \in Sessions : StoresConsistent(s)

----------------------------------------------------------------------------
(* Section tags of the stored chunks. *)

\* no ingestion and no deletion is in progress
Quiescent == \A p \in Procs : procs[p].pc \in {"idle", "done", "failed"}

\* the section ids of the stored document outlines of (sessionId, filename)
StoredSectionIds(sessionId, filename) ==
    UNION {{r.toc_data[k].id : k \in DOMAIN r.toc_data} :
              r \in {x \in documentToc : x.session_id = sessionId /\ x.filename = filename}}

\* C25: in every quiescent state the sectionId of each stored chunk is the id
\* of a section of a stored document outline of the chunk's session and
\* file.
C25_SectionTagsReferToStoredOutline ==
    Quiescent =>
        \A e \in documents :
            e.row.sectionId \in StoredSectionIds(e.row.sessionId, e.row.filename)

\* the positions, in start-sorted order, of the sections whose range
\* contains chunk index i
CoveringPositions(sortedSections, i) ==
    {k \in DOMAIN sortedSections : Covers(sortedSections[k], i)}

\* largest element of a non-empty set of numbers
MaxOf(S) == CHOOSE m \in S : \A x \in S : x <= m

\* C26: the tagger gives chunk i the id of the last section, in start-sorted
\* order, whose range [startIndex, endIndex] contains i, and the id of the
\* first section when no range contains i; a chunk never gets a section whose
\* range excludes it while the range of another section contains it.
C26_LastMatchWins ==
    (tocPc = "done" /\ tocData # <<>>)
    => LET sortedSections == SortByStart(tocData)
       IN \A i \in 0..(Len(docs) - 1) :
             LET covering == CoveringPositions(sortedSections, i)
             IN taggedIds[i + 1] =
                   IF covering = {} THEN sortedSections[1].id
                   ELSE sortedSections[MaxOf(covering)].id

----------------------------------------------------------------------------
(* POST /api/ingest: validation, the ingestion graph run, the answer. *)

ALLOWED_FILE_TYPES == {"application/pdf"}

\* what the uploads send: a session id or none (""), and the type of the file
UploadSessionIds == {"", "s1"}
UploadFileTypes == {"application/pdf", "text/plain"}

\* POST /api/ingest up to the tagging in generateTOC.  A file of a type that
\* is not allowed is answered 400 before the graph runs; otherwise the graph
\* is run with `sessionId || thread.thread_id`.
PostIngest(p, sessionId, fileType, d, throws, response) ==
    IF fileType \notin ALLOWED_FILE_TYPES
    THEN /\ procs[p].pc = "idle"
         /\ procs' = [procs EXCEPT ![p] =
                         [IdleProc EXCEPT !.kind = "ingest", !.pc = "rejected",
                                          !.sessionId = sessionId,
                                          !.filename = FileOf(p)]]
         /\ UNCHANGED <<tocVars, quizVars, sweepVars, storeVars, uuidCounter, now>>
    ELSE StartIngest(p, IF sessionId = "" THEN ThreadIdOf(p) ELSE sessionId,
                     FileOf(p), d, throws, response)

\* the route after runs.wait returned: generateTOC has returned its update,
\* with tocGenerated true or with tocGenerated false and tocError, and the
\* route answers createSuccessResponse without reading it
AnswerIngest(p) ==
    /\ procs[p].kind = "ingest"
    /\ procs[p].pc \in {"done", "failed"}
    /\ procs' = [procs EXCEPT ![p].pc = "success"]
    /\ UNCHANGED <<tocVars, quizVars, sweepVars, storeVars, uuidCounter, now>>

NextUpload ==
    \E p \in Procs :
        \/ \E sessionId \in UploadSessionIds, fileType \in UploadFileTypes :
             PostIngest(p, sessionId, fileType, <<Chunk(1, "x")>>, TRUE, <<>>)
        \/ AddDocuments(p)
        \/ StoreDocumentTOC(p)
        \/ FetchDocumentTOCs(p)
        \/ StoreSessionTOC(p)
        \/ StorageFailure(p)
        \/ AnswerIngest(p)

SpecUpload == InitIngest /\ [][NextUpload]_vars

\* C27: when a store call of an ingestion failed (the chunk insert, the
\* document outline upsert, or the fetch or upsert of the session outline),
\* the request is not answered with success.
C27_StorageFailureReported ==
    [][\A p \in Procs :
          (procs[p].pc = "failed" /\ procs'[p].pc # "failed")
          => procs'[p].pc # "success"]_vars

\* C29: an upload without a session id or with a file that is not a PDF is
\* answered with an error before the ingestion graph runs, and the step
\* leaves the chunk store and both outline stores unchanged.
C29_InvalidUploadRejected ==
    [][\A p \in Procs, sessionId \in UploadSessionIds, fileType \in UploadFileTypes :
          (/\ PostIngest(p, sessionId, fileType, <<Chunk(1, "x")>>, TRUE, <<>>)
           /\ (sessionId = "" \/ fileType \notin ALLOWED_FILE_TYPES))
          => /\ procs'[p].pc = "rejected"
             /\ storeVars' = storeVars]_vars

----------------------------------------------------------------------------
(* A failing generator in the quiz graph. *)

\* C28: when the call of the document-grounded question generator fails and
\* the external generator then answers, the run goes on with the external
\* generation and ends with a quiz, not with an error.
C28_DocumentGeneratorFailureRecovered ==
    [][\A docResponse \in DocResponses, topUpResponse \in DocResponses :
          GenerateQuiz(docResponse, <<"ext_q1">>, topUpResponse, "docModel", 1)
          => /\ quizLog'[Len(quizLog')].status = "ok"
             /\ "external" \in Range(quizLog'[Len(quizLog')].requests)]_vars

----------------------------------------------------------------------------
(* The reach of a cleanup request that names a session. *)

\* C30: a cleanup request that names a session id, on either route and with
\* any strategy, leaves every chunk of the other sessions in the store.
C30_NamedCleanupTouchesOnlyItsSession ==
    [][(/\ cleanup'.runs = cleanup.runs + 1
        /\ cleanup'.last[1].sessionId # None)
       => \A e \in documents :
             e.row.sessionId # cleanup'.last[1].sessionId[1] => e \in documents']_vars

----------------------------------------------------------------------------
(* updateSessionTOC on bounded sets of stored document outlines. *)

\* what the boundary extractor proposed for the stored documents: titles,
\* levels and page numbers vary, the boundaries are left to the normaliser
UnifyProposals ==
    [id : {""}, title : {T_Intro, T_Methods}, level : 1..2,
     pageNumber : {None, Some(1), Some(2)}, startIndex : {None}, endIndex : {None}]

\* the chunk row of a one-chunk upload to session s1
OneChunkRow(filename, content, toc) ==
    [sessionId |-> "s1", filename |-> filename,
     sectionId |-> TagDocumentsWithSectionMetadata(<<Chunk(1, content)>>, toc)[1],
     documentIndex |-> 0, lastAccessed |-> 0, pageContent |-> content]

\* a session outline left by an earlier run of updateSessionTOC
StaleOutline ==
    UnifiedTocData(<<TocRecord("s1", "b.pdf", <<Chunk(1, "z")>>,
                               GenerateIndividualTOC(<<Chunk(1, "z")>>, "b.pdf", FALSE,
                                                     <<RawTitled(T_IntroTopic)>>, 0))>>, 0)

\* Session s1 right after storeDocumentTOC of an upload of a.pdf (request
\* 1): the outline of a.pdf has one or two sections, the outline of b.pdf,
\* when one is stored, has one; a session outline may be left from before.
InitUnify ==
    /\ TocOff
    /\ \E ra \in SeqsUpTo(UnifyProposals, 2) \ {<<>>},
          rb \in SeqsUpTo(UnifyProposals, 1),
          stale \in BOOLEAN :
         LET da == <<Chunk(1, "x")>>
             db == <<Chunk(1, "y")>>
             ta == GenerateIndividualTOC(da, "a.pdf", FALSE, ra, 0)
             tb == GenerateIndividualTOC(db, "b.pdf", FALSE, rb, 0)
         IN /\ documentToc =
                   {TocRecord("s1", "a.pdf", da, ta)}
                   \cup (IF rb = <<>> THEN {} ELSE {TocRecord("s1", "b.pdf", db, tb)})
            /\ documents =
                   InsertRows({}, <<OneChunkRow("a.pdf", "x", ta)>>
                                  \o (IF rb = <<>> THEN <<>>
                                      ELSE <<OneChunkRow("b.pdf", "y", tb)>>))
            /\ procs = [p \in Procs |->
                          IF p = 1
                          THEN [IdleProc EXCEPT
                                  !.kind = "ingest", !.pc = "tocStored",
                                  !.sessionId = "s1", !.filename = "a.pdf",
                                  !.docs = da, !.tocData = ta,
                                  !.taggedIds = TagDocumentsWithSectionMetadata(da, ta)]
                          ELSE IdleProc]
            /\ sessionToc = [s \in Sessions |->
                               IF s = "s1" /\ stale THEN Some(StaleOutline) ELSE None]
    /\ uuidCounter = 0
    /\ now = 0
    /\ QuizOff
    /\ CleanupOff

NextUnify == \E p \in Procs : FetchDocumentTOCs(p) \/ StoreSessionTOC(p)

SpecUnify == InitUnify /\ [][NextUnify]_vars

\* C31: in the unified outline updateSessionTOC computes, every section in a
\* relatedSections list belongs to another document than the section it is
\* listed under.
C31_RelatedFromOtherDocuments ==
    \A p \in Procs :
        procs[p].pc \in {"fetched", "done"}
        => \A i \in DOMAIN procs[p].unified :
              \A m \in DOMAIN procs[p].unified[i].relatedSections :
                 procs[p].unified[i].relatedSections[m].filename
                     # procs[p].unified[i].filename

----------------------------------------------------------------------------
(* Uploading a file again. *)

\* the stored document outlines of (sessionId, filename)
OutlinesOf(sessionId, filename) ==
    {r \in documentToc : r.session_id = sessionId /\ r.filename = filename}

\* C32: at most one document outline is stored for a (session, filename):
\* an upload of the file with changed content replaces the outline of the
\* earlier upload.
C32_OneOutlinePerFilename ==
    \A s \in Sessions, f \in Filenames : Cardinality(OutlinesOf(s, f)) <= 1

\* request p has inserted its chunks
HasAddedChunks(p) ==
    /\ procs[p].kind = "ingest"
    /\ procs[p].pc \in {"added", "tocStored", "fetched", "done"}

\* the stored chunk rows of (sessionId, filename)
ChunksOfFile(sessionId, filename) ==
    {e \in documents : e.row.sessionId = sessionId /\ e.row.filename = filename}

\* C33: when the same document (same session, filename and content) was
\* ingested twice, the chunk store holds each of its chunks once: as many
\* rows as the document has chunks.
C33_ReingestionKeepsChunkSet ==
    \A p, q \in Procs :
        (/\ p # q
         /\ HasAddedChunks(p) /\ HasAddedChunks(q)
         /\ procs[p].sessionId = procs[q].sessionId
         /\ procs[p].filename = procs[q].filename
         /\ procs[p].docs = procs[q].docs)
        => Cardinality(ChunksOfFile(procs[p].sessionId, procs[p].filename))
               = Len(procs[p].docs)

----------------------------------------------------------------------------
(* POST /api/ingest with several files in one request. *)

\* a chunk as processPDF returns it: doc.metadata.filename is the name of
\* the file it was read from
FileChunk(name, content) == [pageNumber |-> 1, pageContent |-> content, filename |-> name]

\* the files the uploads are made of
UploadFiles ==
    {[name |-> "a.pdf", chunks |-> <<FileChunk("a.pdf", "x")>>],
     [name |-> "b.pdf", chunks |-> <<FileChunk("b.pdf", "y")>>]}

\* the batches of one request: one file, or both in either order
Batches ==
    {b \in UNION {[1..n -> UploadFiles] : n \in 1..2} :
        \A i, j \in DOMAIN b : i # j => b[i] # b[j]}

\* a loop over the files that stops at the first file processPDF fails on
RECURSIVE DocsUntilFailure(_, _)
DocsUntilFailure(files, readable) ==
    IF files = <<>> \/ ~Head(readable) THEN <<>>
    ELSE Head(files).chunks \o DocsUntilFailure(Tail(files), Tail(readable))

\* allDocs after the loop over the files in the ingest route: the chunks of
\* every file processPDF could read, in the order of the files; a file it
\* throws on is skipped
RECURSIVE AllDocs(_, _)
AllDocs(files, readable) ==
    IF files = <<>> THEN <<>>
    ELSE (IF Head(readable) THEN Head(files).chunks ELSE <<>>)
         \o AllDocs(Tail(files), Tail(readable))

\* POST /api/ingest with the PDF files of a batch, up to the tagging in
\* generateTOC.  readable[i] tells whether processPDF succeeds on file i.
\* Without any chunk the route answers 500; otherwise it runs the ingestion
\* graph once, on all chunks, with the name of the first file as filename.
PostIngestBatch(p, sessionId, files, readable, throws, response) ==
    IF AllDocs(files, readable) = <<>>
    THEN /\ procs[p].pc = "idle"
         /\ procs' = [procs EXCEPT ![p] =
                         [IdleProc EXCEPT !.kind = "ingest", !.pc = "noDocuments",
                                          !.sessionId = sessionId,
                                          !.filename = files[1].name]]
         /\ UNCHANGED <<tocVars, quizVars, sweepVars, storeVars, uuidCounter, now>>
    ELSE StartIngest(p, sessionId, files[1].name, AllDocs(files, readable),
                     throws, response)

\* the batch requests of a session, one after the other
NextBatch ==
    \E p \in Procs :
        \/ /\ \A q \in Procs : ~InFlight(q)
           /\ \E files \in Batches :
                \E readable \in [DOMAIN files -> BOOLEAN] :
                   PostIngestBatch(p, "s1", files, readable, TRUE, <<>>)
        \/ AddDocuments(p)
        \/ StoreDocumentTOC(p)
        \/ FetchDocumentTOCs(p)
        \/ StoreSessionTOC(p)
        \/ StorageFailure(p)

SpecBatch == InitIngest /\ [][NextBatch]_vars

\* C34: when the ingestion graph run of a batch upload has completed all its
\* store calls, every file that yielded chunks has
\* a stored document outline under its own filename, and the section each of
\* its chunks is tagged with is a section of that outline, attributed to
\* that file.
C34_OutlinePerUploadedFile ==
    \A p \in Procs :
        (procs[p].kind = "ingest" /\ procs[p].pc = "done")
        => \A i \in DOMAIN procs[p].docs :
              \E r \in OutlinesOf(procs[p].sessionId, procs[p].docs[i].filename) :
                 \E k \in DOMAIN r.toc_data :
                    /\ r.toc_data[k].id = procs[p].taggedIds[i]
                    /\ r.toc_data[k].filename = procs[p].docs[i].filename

----------------------------------------------------------------------------
(* Seed-based grouping of the flattened sections. *)

\* The groups of seed-based grouping over positions: the seed at position i
\* takes every other position that is in no group yet and whose title is
\* similar to its own; grouped is the set of positions already in a group.
RECURSIVE SeedGroups(_, _, _)
SeedGroups(sections, i, grouped) ==
    IF i > Len(sections) THEN <<>>
    ELSE IF i \in grouped THEN SeedGroups(sections, i + 1, grouped)
    ELSE LET others == {j \in DOMAIN sections :
                           /\ j # i
                           /\ j \notin grouped
                           /\ SimilarTitles(sections[i].title, sections[j].title)}
         IN IF others = {} THEN SeedGroups(sections, i + 1, grouped)
            ELSE <<[seed |-> i, others |-> others]>>
                 \o SeedGroups(sections, i + 1, grouped \cup {i} \cup others)

\* C35: the groups updateSessionTOC forms are the groups of seed-based
\* grouping: a section joins the group of a seed exactly when it is in no
\* group yet and its title is similar to the seed's; the seed represents the
\* group and the other members are exactly its relatedSections; isGrouped
\* holds exactly for the sections with a non-empty relatedSections list.
C35_SeedGrouping ==
    \A p \in Procs :
        (procs[p].kind = "ingest" /\ procs[p].pc \in {"fetched", "done"})
        => LET all == FlattenSections(procs[p].fetched)
               ref == SeedGroups(all, 1, {})
               unified == procs[p].unified
           IN /\ \A k \in DOMAIN ref :
                    \E i \in DOMAIN unified :
                       /\ SectionKey(unified[i]) = SectionKey(all[ref[k].seed])
                       /\ Len(unified[i].relatedSections) = Cardinality(ref[k].others)
                       /\ {SectionKey(unified[i].relatedSections[m]) :
                              m \in DOMAIN unified[i].relatedSections}
                          = {SectionKey(all[j]) : j \in ref[k].others}
              /\ Cardinality({i \in DOMAIN unified : unified[i].isGrouped}) = Len(ref)
              /\ \A i \in DOMAIN unified :
                    unified[i].isGrouped <=> unified[i].relatedSections # <<>>

----------------------------------------------------------------------------
(* The order of the stored session outline. *)

\* the page a section is sorted by: a section without page number sorts as
\* page 0
PageKey(section) ==
    IF section.pageNumber = None THEN 0 ELSE section.pageNumber[1]

\* ascending by page, and by level among sections of one page
PageLevelOrdered(unified) ==
    \A i, j \in DOMAIN unified :
        i < j => /\ PageKey(unified[i]) <= PageKey(unified[j])
                 /\ PageKey(unified[i]) = PageKey(unified[j])
                    => unified[i].level <= unified[j].level

\* C36: once updateSessionTOC has stored the session outline, the stored
\* outline is exactly the unified outline of that run, whatever outline the
\* session had before, and it is ordered by page number ascending and by
\* level ascending among sections of equal page number.
C36_SessionOutlineSortedAndReplaced ==
    \A p \in Procs :
        (procs[p].kind = "ingest" /\ procs[p].pc = "done")
        => /\ sessionToc[procs[p].sessionId] = Some(procs[p].unified)
           /\ PageLevelOrdered(sessionToc[procs[p].sessionId][1])
           /\ Len(UnifiedMembers(sessionToc[procs[p].sessionId][1]))
                  <= Len(FlattenSections(procs[p].fetched))

\* a run stored an outline of three top-level sections that the fetched
\* rows listed in another order, by page and by level
C36_Witness ==
    \E p \in Procs :
        /\ procs[p].pc = "done"
        /\ sessionToc[procs[p].sessionId] = Some(procs[p].unified)
        /\ Len(procs[p].unified) = 3
        /\ LET all == FlattenSections(procs[p].fetched)
           IN /\ Len(all) = 3
              /\ PageKey(all[1]) > PageKey(all[2])
              /\ PageKey(all[2]) = PageKey(all[3])
              /\ all[2].level > all[3].level

----------------------------------------------------------------------------
(* The order of the store calls within one ingestion. *)

\* C37: when updateSessionTOC of an ingestion has read the document outlines
\* of the session, the chunk insert and the outline upsert of that ingestion
\* have completed: the rows read include the outline stored under the
\* ingestion's filename and the chunk store holds its chunks; and after a
\* store call of an ingestion failed, updateSessionTOC does not read for it.
C37_OutlineStoredBeforeUnifier ==
    [][\A p \in Procs :
          /\ (procs[p].pc # "fetched" /\ procs'[p].pc = "fetched"
              /\ procs[p].kind = "ingest")
             => /\ procs[p].pc = "tocStored"
                /\ OutlinesOf(procs[p].sessionId, procs[p].filename) # {}
                /\ \E i \in DOMAIN procs'[p].fetched :
                      /\ procs'[p].fetched[i].session_id = procs[p].sessionId
                      /\ procs'[p].fetched[i].filename = procs[p].filename
                /\ \A i \in DOMAIN ChunkRows(p) :
                      Copies(documents, ChunkRows(p)[i]) >= 1
          /\ procs[p].pc = "failed"
             => /\ procs'[p].pc \in {"failed", "success"}
                /\ procs'[p].fetched = procs[p].fetched]_vars

\* one ingestion ran the unifier over rows that include its own outline,
\* another failed before its outline was stored and read nothing
C37_Witness ==
    \E p, q \in Procs :
        /\ procs[p].kind = "ingest"
        /\ procs[p].pc = "done"
        /\ \E i \in DOMAIN procs[p].fetched :
              procs[p].fetched[i].filename = procs[p].filename
        /\ procs[q].kind = "ingest"
        /\ procs[q].pc = "failed"
        /\ procs[q].fetched = <<>>
        /\ OutlinesOf(procs[q].sessionId, procs[q].filename) = {}

----------------------------------------------------------------------------
(* A file of a batch that cannot be processed. *)

\* C38: in a batch upload, the chunks of every file processPDF can read are
\* handed to the ingestion graph whatever happens to the other files of the
\* batch, and the chunk insert of the graph stores all of them; the request
\* is answered with the "no documents" error exactly when no file of the
\* batch yields a chunk.
C38_SiblingFilesStillIngested ==
    [][\A p \in Procs :
          /\ \A files \in Batches :
                \A readable \in [DOMAIN files -> BOOLEAN] :
                   PostIngestBatch(p, "s1", files, readable, TRUE, <<>>)
                   => /\ procs'[p].pc = "noDocuments"
                         <=> \A i \in DOMAIN files : ~readable[i]
                      /\ \A i \in DOMAIN files :
                            readable[i]
                            => \A k \in DOMAIN files[i].chunks :
                                  \E m \in DOMAIN procs'[p].docs :
                                     procs'[p].docs[m] = files[i].chunks[k]
          /\ AddDocuments(p)
             => \A m \in DOMAIN procs[p].docs :
                   \E e \in documents' :
                      /\ e.row.sessionId = procs[p].sessionId
                      /\ e.row.pageContent = procs[p].docs[m].pageContent]_vars

\* processPDF failed on a.pdf, the first file of a batch, and the chunk of
\* its sibling b.pdf is in the chunk store
C38_Witness ==
    \E p \in Procs :
        /\ procs[p].kind = "ingest"
        /\ procs[p].filename = "a.pdf"
        /\ procs[p].docs = <<FileChunk("b.pdf", "y")>>
        /\ procs[p].pc = "added"
        /\ \E e \in documents :
              e.row.sessionId = "s1" /\ e.row.pageContent = "y"

----------------------------------------------------------------------------
(* The levels of the sections of a document outline. *)

\* what TOCSchema lets the extractor propose as the level of a section
SchemaLevels == 1..5

LevelProposals ==
    [id : {""}, title : {<<>>}, level : SchemaLevels, pageNumber : {None},
     startIndex : {None}, endIndex : {None}]

\* generateIndividualTOC on documents of up to MaxChunks chunks for which
\* the extractor throws or proposes sections of any level of the schema
InitLevels ==
    /\ \E N \in 1..MaxChunks :
         /\ docs \in [1..N -> ChunkInputs]
         /\ aiResponse \in SeqsUpTo(LevelProposals, MaxProposals)
    /\ aiThrows \in BOOLEAN
    /\ aiThrows => aiResponse = <<>>
    /\ tocData = <<>>
    /\ taggedIds = <<>>
    /\ tocPc = "input"
    /\ StoresEmpty
    /\ uuidCounter = 0
    /\ now = 0
    /\ ProcsIdle
    /\ QuizOff
    /\ CleanupOff

SpecLevels == InitLevels /\ [][NextTOC]_vars

\* C39: every section generateIndividualTOC returns, from the extractor's
\* proposals or from the page-grouped fallback, has a level from 1 to 3,
\* whatever level the extractor proposed.
C39_LevelsClamped ==
    tocPc = "done"
    => \A k \in DOMAIN tocData : tocData[k].level \in 1..MaxDepth

\* the extractor proposed the levels 5 and 2, and the outline has the
\* levels 3 and 2
C39_Witness ==
    /\ tocPc = "done"
    /\ ~aiThrows
    /\ Len(aiResponse) = 2
    /\ aiResponse[1].level = 5
    /\ aiResponse[2].level = 2
    /\ Len(tocData) = 2
    /\ tocData[1].level = MaxDepth
    /\ tocData[2].level = 2

----------------------------------------------------------------------------
(* QuizComponent: the quiz a user takes in the browser.  Every handler runs  *)
(* on the state of the last render.                                          *)

\* the answer options of a question, by index
OptionIndexes == 0..1

\* the question lists /api/quiz answers with: one or two questions, each
\* with the index of its correct option
UiQuestions ==
    UNION {[1..n -> [correctAnswer : OptionIndexes]] : n \in 1..MaxQuestions}

uiUnchanged ==
    UNCHANGED <<tocVars, storeVars, uuidCounter, now, procs, sweepVars,
                quizQuestions, quizSessions, quiz, quizLog>>

\* generateQuiz, when the route answered with questions: the setup screen is
\* left for the first question
StartQuiz(questions) ==
    /\ ~quizState.quizStarted
    /\ Len(onCompleteCalls) < MaxQuizCalls
    /\ quizState' = [questions |-> questions, currentQuestion |-> 0, score |-> 0,
                     userAnswers |-> [i \in DOMAIN questions |-> None],
                     completed |-> FALSE, showFeedback |-> FALSE,
                     selectedAnswer |-> None, quizStarted |-> TRUE]
    /\ UNCHANGED onCompleteCalls
    /\ uiUnchanged

\* the question screen is shown
OnQuestionScreen == quizState.quizStarted /\ ~quizState.completed

\* handleAnswerSelect(optionIndex): the option buttons are disabled while
\* the feedback is shown
HandleAnswerSelect(optionIndex) ==
    /\ OnQuestionScreen
    /\ ~quizState.showFeedback
    /\ quizState' = [quizState EXCEPT !.selectedAnswer = Some(optionIndex)]
    /\ UNCHANGED onCompleteCalls
    /\ uiUnchanged

\* submitAnswer: the button is shown until the feedback is, and is disabled
\* without a selected option
SubmitAnswer ==
    /\ OnQuestionScreen
    /\ ~quizState.showFeedback
    /\ quizState.selectedAnswer # None
    /\ LET currentQuestion == quizState.questions[quizState.currentQuestion + 1]
           isCorrect == quizState.selectedAnswer[1] = currentQuestion.correctAnswer
       IN quizState' = [quizState EXCEPT
                          !.showFeedback = TRUE,
                          !.score = @ + (IF isCorrect THEN 1 ELSE 0),
                          !.userAnswers[quizState.currentQuestion + 1] =
                              quizState.selectedAnswer]
    /\ UNCHANGED onCompleteCalls
    /\ uiUnchanged

\* nextQuestion: the button is shown with the feedback
NextQuestion ==
    /\ OnQuestionScreen
    /\ quizState.showFeedback
    /\ LET nextIndex == quizState.currentQuestion + 1
           currentQuestion == quizState.questions[quizState.currentQuestion + 1]
       IN IF nextIndex >= Len(quizState.questions)
          THEN /\ quizState' = [quizState EXCEPT !.completed = TRUE]
               /\ onCompleteCalls' =
                      Append(onCompleteCalls,
                             <<quizState.score
                                 + (IF quizState.selectedAnswer
                                        = Some(currentQuestion.correctAnswer)
                                    THEN 1 ELSE 0),
                               Len(quizState.questions)>>)
          ELSE /\ quizState' = [quizState EXCEPT !.currentQuestion = nextIndex,
                                                 !.showFeedback = FALSE,
                                                 !.selectedAnswer = None]
               /\ UNCHANGED onCompleteCalls
    /\ uiUnchanged

\* restartQuiz: the button is on the question screen and on the result screen
RestartQuiz ==
    /\ quizState.quizStarted
    /\ quizState' = InitialQuizState
    /\ UNCHANGED onCompleteCalls
    /\ uiUnchanged

InitQuizUi ==
    /\ TocOff
    /\ StoresEmpty
    /\ uuidCounter = 0
    /\ now = 0
    /\ ProcsIdle
    /\ QuizOff
    /\ CleanupOff

NextQuizUi ==
    \/ \E questions \in UiQuestions : StartQuiz(questions)
    \/ \E optionIndex \in OptionIndexes : HandleAnswerSelect(optionIndex)
    \/ SubmitAnswer
    \/ NextQuestion
    \/ RestartQuiz

SpecQuizUi == InitQuizUi /\ [][NextQuizUi]_vars

\* the questions of the quiz on screen that the user answered correctly
CorrectlyAnswered ==
    {i \in DOMAIN quizState.questions :
        quizState.userAnswers[i] = Some(quizState.questions[i].correctAnswer)}

\* C40: while the result screen of a quiz is shown, the score of the last
\* onComplete call is the number of questions the user answered correctly,
\* it is the score on the screen, and it does not exceed the number of
\* questions.
C40_CompletionScore ==
    quizState.completed
    => LET call == onCompleteCalls[Len(onCompleteCalls)]
       IN /\ call[1] = Cardinality(CorrectlyAnswered)
          /\ call[1] = quizState.score
          /\ call[1] <= Len(quizState.questions)
====
